---- MODULE Spec2Model ----
(***************************************************************************)
(* A model of the user-management service: the signed-token service        *)
(* (JWTTokenService), the password service (BcryptPasswordService), the    *)
(* in-memory user store (InMemoryUserRepository), the authentication       *)
(* service (DefaultAuthService) and the authentication middleware          *)
(* (DefaultAuthMiddleware).                                                *)
(*                                                                         *)
(* Strings are sequences of one-character strings, so that split('.'),     *)
(* a single-character change and toLowerCase().includes() are computed as  *)
(* the code computes them.  HMAC-SHA256 and SHA-256 are modelled as        *)
(* injective keyed functions (no collisions).                              *)
(*                                                                         *)
(* SpecToken runs the token service alone, SpecAuth the accounts (each     *)
(* call of the authentication service as one step), SpecSession the calls  *)
(* that issue and revoke tokens, Spec the whole service for one account,   *)
(* SpecAsync two register calls from await to await, SpecRbac the          *)
(* authorization middleware, SpecAdmin the /admin routes,                  *)
(* SpecResponses the responses of the controllers, SpecPassword the        *)
(* password policy, SpecStore register and login from await to await       *)
(* among the writers of the store, SpecChecks the checks of validateToken, *)
(* SpecController the handlers of UserController, SpecMiddleware the       *)
(* authenticate middleware under every shape of the Authorization header,  *)
(* SpecRace login and refreshToken from await to await among setActive,    *)
(* delete and logout, SpecRoles the operations on roles and the routes     *)
(* that read them, and SpecPasswordChange the PUT /users/password route.   *)
(***************************************************************************)
EXTENDS Integers, Sequences, FiniteSets, TLC

VARIABLES
    now,            \* Date.now(), epoch milliseconds
    revokedTokens,  \* JWTTokenService.revokedTokens
    users,          \* InMemoryUserRepository.users: id -> User
    nextId,         \* InMemoryUserRepository.nextId
    issued,         \* history: every token generateToken has returned, with subject and time
    revokeCalls,    \* history: every string revokeToken has been called with
    lastOp,         \* the last call observed by a caller, with its outcome
    calls           \* the register, login and refreshToken calls that run from await to await

vars == <<now, revokedTokens, users, nextId, issued, revokeCalls, lastOp, calls>>

(***************************************************************************)
(* Bounds of the model.                                                    *)
(***************************************************************************)
MaxUsers == 2
MaxIssued == 2
MaxRevoked == 1

(***************************************************************************)
(* Characters and numbers.                                                 *)
(***************************************************************************)
Range(s) == {s[i] : i \in 1..Len(s)}

IndexOf(c, s) == CHOOSE i \in 1..Len(s) : s[i] = c

DigitChar == <<"0", "1", "2", "3", "4", "5", "6", "7", "8", "9">>

IsDigits(s) == Len(s) > 0 /\ \A i \in 1..Len(s) : s[i] \in Range(DigitChar)

RECURSIVE NumberToString(_)
NumberToString(n) ==
    IF n < 10 THEN <<DigitChar[n + 1]>>
    ELSE NumberToString(n \div 10) \o <<DigitChar[(n % 10) + 1]>>

RECURSIVE ParseNumber(_)
ParseNumber(s) ==
    IF Len(s) = 1 THEN IndexOf(s[1], DigitChar) - 1
    ELSE 10 * ParseNumber(SubSeq(s, 1, Len(s) - 1)) + (IndexOf(s[Len(s)], DigitChar) - 1)

\* String.prototype.split(sep) for a one-character separator: the pieces
\* between consecutive occurrences of sep
Split(s, sep) ==
    LET at == {i \in 1..Len(s) : s[i] = sep}
        n == Cardinality(at)
        pos(k) == CHOOSE i \in at : Cardinality({j \in at : j < i}) = k - 1
        first(k) == IF k = 1 THEN 1 ELSE pos(k - 1) + 1
        last(k) == IF k = n + 1 THEN Len(s) ELSE pos(k) - 1
    IN  [k \in 1..(n + 1) |-> SubSeq(s, first(k), last(k))]

(***************************************************************************)
(* JWTTokenService                                                         *)
(***************************************************************************)
expirationHours == 24

ExpirationMs == expirationHours * 60 * 60 * 1000

\* JSON.stringify of the header object and of a TokenPayload
HeaderJson == <<"{", "}">>

PayloadJson(payload) ==
    <<"{">> \o payload.userId \o <<",">> \o NumberToString(payload.issuedAt)
            \o <<",">> \o NumberToString(payload.expiresAt) \o <<"}">>

\* JSON.parse of a payload: ok = FALSE when it throws
JsonParse(s) ==
    LET inner == SubSeq(s, 2, Len(s) - 1)
        parts == Split(inner, ",")
        wellFormed == /\ Len(s) >= 2
                      /\ s[1] = "{"
                      /\ s[Len(s)] = "}"
                      /\ Len(parts) = 3
                      /\ \A i \in 1..3 : IsDigits(parts[i])
    IN  IF wellFormed
        THEN [ok |-> TRUE,
              payload |-> [userId |-> parts[1],
                           issuedAt |-> ParseNumber(parts[2]),
                           expiresAt |-> ParseNumber(parts[3])]]
        ELSE [ok |-> FALSE,
              payload |-> [userId |-> <<>>, issuedAt |-> 0, expiresAt |-> 0]]

\* base64url: the text alphabet and the alphabet it is encoded to
PlainChars == <<"0", "1", "2", "3", "4", "5", "6", "7", "8", "9", "{", ",", "}">>
CodeChars  == <<"A", "B", "C", "D", "E", "F", "G", "H", "I", "J", "e", "L", "f">>

base64UrlEncode(data) ==
    [i \in 1..Len(data) |-> CodeChars[IndexOf(data[i], PlainChars)]]

\* a character outside the alphabet decodes to no text character
base64UrlDecode(data) ==
    [i \in 1..Len(data) |->
        IF data[i] \in Range(CodeChars) THEN PlainChars[IndexOf(data[i], CodeChars)]
        ELSE "?"]

\* the server-held secret; HMAC keyed with it is injective on its input and
\* its base64url digest holds no '.'
secret == "K"

createSignature(data) ==
    <<secret>> \o [i \in 1..Len(data) |-> IF data[i] = "." THEN "_" ELSE data[i]]

createToken(payload) ==
    LET encodedHeader  == base64UrlEncode(HeaderJson)
        encodedPayload == base64UrlEncode(PayloadJson(payload))
        signature      == createSignature(encodedHeader \o <<".">> \o encodedPayload)
    IN  encodedHeader \o <<".">> \o encodedPayload \o <<".">> \o signature

NoPayload == [userId |-> <<>>, issuedAt |-> 0, expiresAt |-> 0]

\* decodeToken without the comparison of the signature
decodeToken_NoSignatureCheck(token) ==
    LET parts == Split(token, ".")
    IN  IF Len(parts) # 3
        THEN [error |-> "Invalid token format", payload |-> NoPayload]
        ELSE LET parsed == JsonParse(base64UrlDecode(parts[2]))
             IN  IF parsed.ok
                 THEN [error |-> "", payload |-> parsed.payload]
                 ELSE [error |-> "Invalid token payload", payload |-> NoPayload]

\* decodeToken parsing the payload before it compares the signature
decodeToken_PayloadFirst(token) ==
    LET parts == Split(token, ".")
    IN  IF Len(parts) # 3
        THEN [error |-> "Invalid token format", payload |-> NoPayload]
        ELSE LET parsed == JsonParse(base64UrlDecode(parts[2]))
             IN  IF ~parsed.ok
                 THEN [error |-> "Invalid token payload", payload |-> NoPayload]
                 ELSE IF parts[3] # createSignature(parts[1] \o <<".">> \o parts[2])
                 THEN [error |-> "Invalid token signature", payload |-> NoPayload]
                 ELSE [error |-> "", payload |-> parsed.payload]

\* decodeToken: error = "" when it returns the payload
decodeToken(token) ==
    LET parts == Split(token, ".")
    IN  IF Len(parts) # 3
        THEN [error |-> "Invalid token format", payload |-> NoPayload]
        ELSE IF parts[3] # createSignature(parts[1] \o <<".">> \o parts[2])
        THEN [error |-> "Invalid token signature", payload |-> NoPayload]
        ELSE LET parsed == JsonParse(base64UrlDecode(parts[2]))
             IN  IF parsed.ok
                 THEN [error |-> "", payload |-> parsed.payload]
                 ELSE [error |-> "Invalid token payload", payload |-> NoPayload]

TokenOk(userId) == [ok |-> TRUE, error |-> "", userId |-> userId]
TokenError(message) == [ok |-> FALSE, error |-> message, userId |-> <<>>]

\* validateToken reporting expiry in the first millisecond after it only
validateToken_ExpiryMomentOnly(token, revoked, t) ==
    IF token \in revoked
    THEN TokenError("Token has been revoked")
    ELSE LET decoded == decodeToken(token)
         IN  IF decoded.error # "" THEN TokenError(decoded.error)
             ELSE IF t = decoded.payload.expiresAt + 1 THEN TokenError("Token has expired")
             ELSE TokenOk(decoded.payload.userId)

\* validateToken with the revocation check after decoding and expiry
validateToken_RevocationLast(token, revoked, t) ==
    LET decoded == decodeToken(token)
    IN  IF decoded.error # "" THEN TokenError(decoded.error)
        ELSE IF t > decoded.payload.expiresAt THEN TokenError("Token has expired")
        ELSE IF token \in revoked THEN TokenError("Token has been revoked")
        ELSE TokenOk(decoded.payload.userId)

\* validateToken on the revocation set `revoked` at clock reading `t`
validateToken(token, revoked, t) ==
    IF token \in revoked
    THEN TokenError("Token has been revoked")
    ELSE LET decoded == decodeToken(token)
         IN  IF decoded.error # "" THEN TokenError(decoded.error)
             ELSE IF t > decoded.payload.expiresAt THEN TokenError("Token has expired")
             ELSE TokenOk(decoded.payload.userId)

\* the token generateToken returns at clock reading t
\* generateToken that signs every token for the first user id
generateToken_FixedSubject(userId, t) ==
    createToken([userId |-> NumberToString(1), issuedAt |-> t, expiresAt |-> t + ExpirationMs])

generateToken(userId, t) ==
    createToken([userId |-> userId, issuedAt |-> t, expiresAt |-> t + ExpirationMs])

\* getTokenExpiration at clock reading t
getTokenExpiration(t) == t + ExpirationMs

\* revokeToken that records nothing
revokeToken_Unrecorded(token, revoked) == revoked

\* revokeToken that drops an entry already present
revokeToken_Toggle(token, revoked) ==
    IF token \in revoked THEN revoked \ {token} ELSE revoked \cup {token}

\* revokeToken that ignores a string without three segments
revokeToken_ParsedOnly(token, revoked) ==
    IF Len(Split(token, ".")) # 3 THEN revoked ELSE revoked \cup {token}

\* revokeToken: the revocation set after the call
revokeToken(token, revoked) == revoked \cup {token}

(***************************************************************************)
(* BcryptPasswordService                                                   *)
(***************************************************************************)
MIN_PASSWORD_LENGTH == 8
MAX_PASSWORD_LENGTH == 128

UpperChars == <<"A", "B", "C", "D", "E", "F", "G", "H", "I", "J", "K", "L", "M",
                "N", "O", "P", "Q", "R", "S", "T", "U", "V", "W", "X", "Y", "Z">>
LowerChars == <<"a", "b", "c", "d", "e", "f", "g", "h", "i", "j", "k", "l", "m",
                "n", "o", "p", "q", "r", "s", "t", "u", "v", "w", "x", "y", "z">>

\* the character class of /[!@#$%^&*()_+\-=\[\]{};':"\\|,.<>\/?]/
SpecialChars == {"!", "@", "#", "$", "%", "^", "&", "*", "(", ")", "_", "+", "-", "=",
                 "[", "]", "{", "}", ";", "'", ":", "\"", "\\", "|", ",", ".", "<", ">",
                 "/", "?"}

toLowerCase(s) ==
    [i \in 1..Len(s) |->
        IF s[i] \in Range(UpperChars) THEN LowerChars[IndexOf(s[i], UpperChars)] ELSE s[i]]

\* String.prototype.includes
Includes(s, sub) ==
    \E i \in 1..(Len(s) - Len(sub) + 1) : SubSeq(s, i, i + Len(sub) - 1) = sub

\* the characters that . of a regular expression does not match (U+2028 and
\* U+2029, which no input of the model holds, are left out)
LineTerminators == {"\n", "\r"}

\* /(.)\1{2,}/
HasTripleRepeat(s) ==
    \E i \in 1..(Len(s) - 2) :
        s[i] \notin LineTerminators /\ s[i] = s[i + 1] /\ s[i + 1] = s[i + 2]

commonPasswords ==
    << <<"p", "a", "s", "s", "w", "o", "r", "d">>,
       <<"1", "2", "3", "4", "5", "6">>,
       <<"q", "w", "e", "r", "t", "y">>,
       <<"a", "d", "m", "i", "n">>,
       <<"l", "e", "t", "m", "e", "i", "n">> >>

\* errors.push(message) when the rule is violated
PushIf(violated, message) == IF violated THEN <<message>> ELSE <<>>

validatePasswordStrength(password) ==
    LET errors ==
            PushIf(Len(password) < MIN_PASSWORD_LENGTH,
                   "Password must be at least 8 characters long")
         \o PushIf(Len(password) > MAX_PASSWORD_LENGTH,
                   "Password must be no more than 128 characters long")
         \o PushIf(Range(password) \cap Range(UpperChars) = {},
                   "Password must contain at least one uppercase letter")
         \o PushIf(Range(password) \cap Range(LowerChars) = {},
                   "Password must contain at least one lowercase letter")
         \o PushIf(Range(password) \cap Range(DigitChar) = {},
                   "Password must contain at least one number")
         \o PushIf(Range(password) \cap SpecialChars = {},
                   "Password must contain at least one special character")
         \o PushIf(HasTripleRepeat(password),
                   "Password cannot contain more than 2 consecutive identical characters")
         \o PushIf(\E k \in 1..Len(commonPasswords) :
                       Includes(toLowerCase(password), commonPasswords[k]),
                   "Password cannot contain common words or patterns")
    IN  [isValid |-> Len(errors) = 0, errors |-> errors]

\* SHA-256 in hex: injective on its input, and its digest holds no ':'
createHash(data) ==
    <<"#">> \o [i \in 1..Len(data) |-> IF data[i] = ":" THEN "%" ELSE data[i]]

\* hashPassword with the salt randomBytes(16) returned
hashPassword(password, salt) == salt \o <<":">> \o createHash(password \o salt)

verifyPassword(password, hashedPassword) ==
    LET parts == Split(hashedPassword, ":")
    IN  IF Len(parts) < 2 \/ parts[1] = <<>> \/ parts[2] = <<>>
        THEN FALSE
        ELSE parts[2] = createHash(password \o parts[1])

(***************************************************************************)
(* InMemoryUserRepository.  The Map `users` is a function from the ids      *)
(* present to the users; it iterates in insertion order, which is the      *)
(* order of the ids.  The timestamps createdAt and updatedAt, which no      *)
(* operation reads, are left out of User.                                  *)
(***************************************************************************)
NoDate == -1

NullUser == [id |-> <<>>]

IdNumber(id) == CHOOSE n \in 1..(MaxUsers + 1) : NumberToString(n) = id

\* the first user of the iteration that satisfies Match, or null
FirstUser(store, Match(_)) ==
    LET found == {id \in DOMAIN store : Match(store[id])}
    IN  IF found = {} THEN NullUser
        ELSE store[CHOOSE id \in found : \A other \in found : IdNumber(id) <= IdNumber(other)]

findById(store, id) == IF id \in DOMAIN store THEN store[id] ELSE NullUser

findByEmail(store, email) ==
    LET Match(u) == u.email = email IN FirstUser(store, Match)

findByUsername(store, username) ==
    LET Match(u) == u.username = username IN FirstUser(store, Match)

\* Map.set
MapSet(store, id, user) ==
    [k \in DOMAIN store \cup {id} |-> IF k = id THEN user ELSE store[k]]

\* the User that create builds with id generateId() = counter.toString()
NewUser(counter, userData, hashedPassword) ==
    [id |-> NumberToString(counter),
     email |-> userData.email,
     username |-> userData.username,
     hashedPassword |-> hashedPassword,
     roles |-> <<>>,
     profile |-> [firstName |-> userData.firstName,
                  lastName |-> userData.lastName,
                  lastLoginAt |-> NoDate],
     isActive |-> TRUE]

create(store, counter, userData, hashedPassword) ==
    MapSet(store, NumberToString(counter), NewUser(counter, userData, hashedPassword))

\* updateLastLogin, setActive and delete on a user that is present
updateLastLogin(store, id, t) ==
    MapSet(store, id, [store[id] EXCEPT !.profile.lastLoginAt = t])

\* updatePassword on a user that is present
updatePassword(store, id, hashedPassword) ==
    MapSet(store, id, [store[id] EXCEPT !.hashedPassword = hashedPassword])

setActive(store, id, isActive) ==
    MapSet(store, id, [store[id] EXCEPT !.isActive = isActive])

delete(store, id) == [k \in DOMAIN store \ {id} |-> store[k]]

(***************************************************************************)
(* DefaultAuthService and DefaultAuthMiddleware                            *)
(***************************************************************************)
\* an Error: its class name and its message, the message as the pieces of
\* its template
ErrorOf(name, message) == [name |-> name, message |-> message]
NoError == ErrorOf("", <<>>)

InvalidCredentialsError == ErrorOf("InvalidCredentialsError", <<"Invalid email or password">>)
UserAlreadyExistsError(field, value) ==
    ErrorOf("UserAlreadyExistsError", <<"User with ", field, " '", value, "' already exists">>)
UserNotFoundError(identifier) ==
    ErrorOf("UserNotFoundError", <<"User not found: ">> \o identifier)
DeactivatedError == ErrorOf("Error", <<"User account is deactivated">>)

\* errors.join(', ')
JoinErrors(errors) ==
    [i \in 1..(2 * Len(errors) - 1) |-> IF i % 2 = 1 THEN errors[(i + 1) \div 2] ELSE ", "]

PasswordValidationError(errors) ==
    ErrorOf("Error", <<"Password validation failed: ">> \o JoinErrors(errors))

\* toUserResponse that returns the stored user as it is
toUserResponse_WholeUser(user) == user

toUserResponse(user) ==
    [id |-> user.id,
     email |-> user.email,
     username |-> user.username,
     roles |-> user.roles,
     profile |-> user.profile,
     isActive |-> user.isActive]

\* an AuthenticationResult, and the rejection of the call with an error
Authenticated(user, token, expiresAt) ==
    [ok |-> TRUE, error |-> NoError, user |-> toUserResponse(user),
     token |-> token, expiresAt |-> expiresAt]
Rejected(error) ==
    [ok |-> FALSE, error |-> error, user |-> NullUser, token |-> <<>>, expiresAt |-> NoDate]

\* the error register throws before it creates the user, NoError when none
RegisterError_NoUsernameCheck(store, userData) ==
    LET passwordValidation == validatePasswordStrength(userData.password)
    IN  IF ~passwordValidation.isValid
        THEN PasswordValidationError(passwordValidation.errors)
        ELSE IF findByEmail(store, userData.email) # NullUser
        THEN UserAlreadyExistsError("email", userData.email)
        ELSE NoError

RegisterError(store, userData) ==
    LET passwordValidation == validatePasswordStrength(userData.password)
    IN  IF ~passwordValidation.isValid
        THEN PasswordValidationError(passwordValidation.errors)
        ELSE IF findByEmail(store, userData.email) # NullUser
        THEN UserAlreadyExistsError("email", userData.email)
        ELSE IF findByUsername(store, userData.username) # NullUser
        THEN UserAlreadyExistsError("username", userData.username)
        ELSE NoError

\* the error login throws, NoError when it goes on to issue a token
LoginError_NoActiveCheck(store, loginData) ==
    LET user == findByEmail(store, loginData.email)
    IN  IF user = NullUser THEN InvalidCredentialsError
        ELSE IF ~verifyPassword(loginData.password, user.hashedPassword)
        THEN InvalidCredentialsError
        ELSE NoError

LoginError_UnknownEmailTold(store, loginData) ==
    LET user == findByEmail(store, loginData.email)
    IN  IF user = NullUser THEN UserNotFoundError(<<loginData.email>>)
        ELSE IF ~verifyPassword(loginData.password, user.hashedPassword)
        THEN InvalidCredentialsError
        ELSE IF ~user.isActive THEN DeactivatedError
        ELSE NoError

\* login testing isActive before it verifies the password
LoginError_ActiveCheckedFirst(store, loginData) ==
    LET user == findByEmail(store, loginData.email)
    IN  IF user = NullUser THEN InvalidCredentialsError
        ELSE IF ~user.isActive THEN DeactivatedError
        ELSE IF ~verifyPassword(loginData.password, user.hashedPassword)
        THEN InvalidCredentialsError
        ELSE NoError

LoginError(store, loginData) ==
    LET user == findByEmail(store, loginData.email)
    IN  IF user = NullUser THEN InvalidCredentialsError
        ELSE IF ~verifyPassword(loginData.password, user.hashedPassword)
        THEN InvalidCredentialsError
        ELSE IF ~user.isActive THEN DeactivatedError
        ELSE NoError

\* the error DefaultAuthService.validateToken and refreshToken throw for the
\* subject of a validated token, NoError when none
SubjectError_NoActiveCheck(store, userId) ==
    IF findById(store, userId) = NullUser THEN UserNotFoundError(userId)
    ELSE NoError

\* the checks on the subject reporting a missing user as a deactivated one
SubjectError_DeactivatedForMissing(store, userId) ==
    LET user == findById(store, userId)
    IN  IF user = NullUser THEN DeactivatedError
        ELSE IF ~user.isActive THEN DeactivatedError
        ELSE NoError

SubjectError(store, userId) ==
    LET user == findById(store, userId)
    IN  IF user = NullUser THEN UserNotFoundError(userId)
        ELSE IF ~user.isActive THEN DeactivatedError
        ELSE NoError

\* extractToken that takes the second part of the header under any scheme
extractToken_AnyScheme(authHeader) ==
    LET parts == Split(authHeader, " ")
    IN  IF authHeader = <<>> THEN <<>>
        ELSE IF Len(parts) # 2 THEN <<>>
        ELSE parts[2]

\* DefaultAuthMiddleware.extractToken: <<>> is null
extractToken(authHeader) ==
    LET parts == Split(authHeader, " ")
    IN  IF authHeader = <<>> THEN <<>>
        ELSE IF Len(parts) # 2 \/ parts[1] # <<"Bearer">> THEN <<>>
        ELSE parts[2]

\* the outcome of the middleware: the response sent (status 0: none), whether
\* next() was called, and req.user
Responded(status, message) ==
    [status |-> status, error |-> message, next |-> FALSE, user |-> NullUser]
PassedOn(user) ==
    [status |-> 0, error |-> <<>>, next |-> TRUE, user |-> toUserResponse(user)]

authenticate_NoActiveCheck(authHeader, store, revoked, t) ==
    LET token == extractToken(authHeader)
        validated == validateToken(token, revoked, t)
        user == findById(store, validated.userId)
    IN  IF token = <<>> THEN Responded(401, <<"Authentication token required">>)
        ELSE IF ~validated.ok THEN Responded(401, <<validated.error>>)
        ELSE IF user = NullUser THEN Responded(401, <<"Invalid authentication token">>)
        ELSE PassedOn(user)

authenticate(authHeader, store, revoked, t) ==
    LET token == extractToken(authHeader)
        validated == validateToken(token, revoked, t)
        user == findById(store, validated.userId)
    IN  IF token = <<>> THEN Responded(401, <<"Authentication token required">>)
        ELSE IF ~validated.ok THEN Responded(401, <<validated.error>>)
        ELSE IF user = NullUser THEN Responded(401, <<"Invalid authentication token">>)
        ELSE IF ~user.isActive THEN Responded(403, <<"User account is deactivated">>)
        ELSE PassedOn(user)

InsufficientPermissionsError(requiredPermission) ==
    ErrorOf("InsufficientPermissionsError",
            <<"Insufficient permissions: ">> \o requiredPermission \o <<" required">>)

\* the outcome of requireRole and requirePermission, which leave req.user
\* as it is: the response sent (status 0: none) and whether next() was called
Refused(status, message) == [status |-> status, error |-> message, next |-> FALSE]
CalledNext == [status |-> 0, error |-> <<>>, next |-> TRUE]

\* a Role is its name and its permissions, a Permission its resource and its
\* action: the ids, descriptions and dates, which no operation reads, are
\* left out
userHasPermission_AcrossPermissions(user, resource, action) ==
    \E i \in 1..Len(user.roles) :
        /\ \E j \in 1..Len(user.roles[i].permissions) :
              user.roles[i].permissions[j].resource = resource
        /\ \E j \in 1..Len(user.roles[i].permissions) :
              user.roles[i].permissions[j].action = action

userHasPermission(user, resource, action) ==
    \E i \in 1..Len(user.roles) :
        \E j \in 1..Len(user.roles[i].permissions) :
            /\ user.roles[i].permissions[j].resource = resource
            /\ user.roles[i].permissions[j].action = action

\* the middleware requirePermission(resource, action) on a request whose
\* req.user is reqUser (NullUser: not set)
requirePermission(reqUser, resource, action) ==
    IF reqUser = NullUser THEN Refused(401, <<"Authentication required">>)
    ELSE IF ~userHasPermission(reqUser, resource, action)
         THEN Refused(403, InsufficientPermissionsError(
                               <<"Permission '", resource, ":", action, "' required">>).message)
    ELSE CalledNext

\* 'Admin'.toLowerCase() and so on, for the role names of the model
LowerCaseName(name) == IF name = "Admin" THEN "admin" ELSE name

requireRole_IgnoringCase(reqUser, roleName) ==
    IF reqUser = NullUser THEN Refused(401, <<"Authentication required">>)
    ELSE IF ~(\E i \in 1..Len(reqUser.roles) :
                 LowerCaseName(reqUser.roles[i].name) = LowerCaseName(roleName))
         THEN Refused(403, InsufficientPermissionsError(
                               <<"Role '", roleName, "' required">>).message)
    ELSE CalledNext

\* the middleware requireRole(roleName)
requireRole(reqUser, roleName) ==
    IF reqUser = NullUser THEN Refused(401, <<"Authentication required">>)
    ELSE IF ~(\E i \in 1..Len(reqUser.roles) : reqUser.roles[i].name = roleName)
         THEN Refused(403, InsufficientPermissionsError(
                               <<"Role '", roleName, "' required">>).message)
    ELSE CalledNext

requireAdmin(reqUser) == requireRole(reqUser, "admin")

\* a route of /admin: authenticate, requireAdmin, then the handler of the
\* AdminController (handler: whether it was invoked)
adminRouteAfter(authenticated) ==
    LET authorized == requireAdmin(authenticated.user)
    IN  IF ~authenticated.next
            THEN [status |-> authenticated.status, error |-> authenticated.error,
                  handler |-> FALSE]
        ELSE IF ~authorized.next
            THEN [status |-> authorized.status, error |-> authorized.error,
                  handler |-> FALSE]
        ELSE [status |-> 0, error |-> <<>>, handler |-> TRUE]

adminRoute(authHeader, store, revoked, t) ==
    adminRouteAfter(authenticate(authHeader, store, revoked, t))

\* InMemoryUserRepository.updateProfile on a user that is present: the
\* fields of profileData are spread over the profile
updateProfile(store, id, profileData) ==
    MapSet(store, id,
           [store[id] EXCEPT !.profile =
               [f \in DOMAIN store[id].profile \cup DOMAIN profileData |->
                   IF f \in DOMAIN profileData THEN profileData[f]
                   ELSE store[id].profile[f]]])

\* InMemoryUserRepository.findAll() without limit and offset: the users in
\* the order of their insertion
RECURSIVE InIdOrder(_, _)
InIdOrder(store, n) ==
    IF n > MaxUsers + 1 THEN <<>>
    ELSE (IF NumberToString(n) \in DOMAIN store THEN <<store[NumberToString(n)]>> ELSE <<>>)
         \o InIdOrder(store, n + 1)

findAll(store) == InIdOrder(store, 1)

\* the object the controllers build from a User for the data of a response
sanitizedUser(user) ==
    [id |-> user.id,
     email |-> user.email,
     username |-> user.username,
     roles |-> user.roles,
     profile |-> user.profile,
     isActive |-> user.isActive]

\* the response of a controller: its status, and its data (NullUser: none)
\* or its error
Success(status, data) == [status |-> status, data |-> data, error |-> <<>>]
Failure(status, message) == [status |-> status, data |-> NullUser, error |-> message]

\* UserController.getProfile on a request whose req.user is reqUser
getProfile(reqUser) ==
    IF reqUser = NullUser THEN Failure(401, <<"Authentication required">>)
    ELSE Success(200, reqUser)

\* GET /users/profile: authenticate, then getProfile
profileRouteAfter(authenticated) ==
    IF ~authenticated.next THEN Failure(authenticated.status, authenticated.error)
    ELSE getProfile(authenticated.user)

profileRoute(authHeader, store, revoked, t) ==
    profileRouteAfter(authenticate(authHeader, store, revoked, t))

\* AdminController.getAllUsers without limit and offset, and getUserById
getAllUsers(store) ==
    Success(200, [i \in 1..Len(findAll(store)) |-> sanitizedUser(findAll(store)[i])])

getUserById(store, id) ==
    IF findById(store, id) = NullUser THEN Failure(404, UserNotFoundError(id).message)
    ELSE Success(200, sanitizedUser(findById(store, id)))

(***************************************************************************)
(* Inputs: the strings callers present, the subjects, the clock steps.     *)
(***************************************************************************)
UserIdStrings == {NumberToString(i) : i \in 1..MaxUsers}

\* the subjects the token service is asked to issue tokens for
TokenSubjects == {NumberToString(1), NumberToString(2)}

\* 'invalid.token.here', the invalid token of the test suite
InvalidTokenHere ==
    <<"i", "n", "v", "a", "l", "i", "d", ".", "t", "o", "k", "e", "n", ".", "h", "e", "r", "e">>

\* a string without any '.'
NoSegments == <<"g", "a", "r", "b", "a", "g", "e">>

GarbageTokens == {InvalidTokenHere, NoSegments}

\* the positions of the payload segment and of the signature segment of a
\* three-segment string
PayloadPositions(token) ==
    LET parts == Split(token, ".")
    IN  (Len(parts[1]) + 2)..(Len(parts[1]) + 1 + Len(parts[2]))

SignaturePositions(token) ==
    LET parts == Split(token, ".")
    IN  (Len(parts[1]) + Len(parts[2]) + 3)..Len(token)

\* the characters a single-character change writes: three characters of the
\* base64url alphabet that encode digits, one that encodes no payload text,
\* and the segment separator
ChangeChars == {"A", "B", "C", "X", "."}

SingleCharChanges(token, positions) ==
    {[token EXCEPT ![i] = c] : i \in positions, c \in ChangeChars} \ {token}

Tampered(token) ==
    SingleCharChanges(token, PayloadPositions(token) \cup SignaturePositions(token))

\* the changed tokens the callers of the model present: the subject id
\* changed to another subject's, the last digit of expiresAt changed to the
\* separator, the last character of the signature changed
PresentedChanges(token) ==
    LET p == PayloadPositions(token)
        g == SignaturePositions(token)
        firstP == CHOOSE i \in p : \A j \in p : i <= j
        lastP == CHOOSE i \in p : \A j \in p : i >= j
        lastG == CHOOSE i \in g : \A j \in g : i >= j
    IN  ({[token EXCEPT ![firstP + 1] = c] : c \in {"B", "C"}}
          \cup {[token EXCEPT ![lastP - 1] = "."], [token EXCEPT ![lastG] = "X"]})
        \ {token}

IssuedTokens == {r.token : r \in issued}

PresentedTampered == UNION {PresentedChanges(t) : t \in IssuedTokens}

PresentedTokens == IssuedTokens \cup revokedTokens \cup GarbageTokens \cup PresentedTampered

\* the strings revokeToken is called with: as above, with one changed token
\* for each issued token
RevokedInputs ==
    IssuedTokens \cup GarbageTokens
        \cup {[t EXCEPT ![Len(t)] = "X"] : t \in IssuedTokens}

\* the clock readings at which calls are made: the start, one millisecond
\* later, and one validity period after each of the two
ClockReadings == {0, ExpirationMs, ExpirationMs + 1, ExpirationMs + 2}

NoOp == [op |-> "none"]

(***************************************************************************)
(* The token service called directly.                                      *)
(***************************************************************************)
\* the calls in flight; each runs from one await to the next
CallIds == {1, 2}

NoData == [email |-> "", username |-> "", password |-> <<>>, firstName |-> "", lastName |-> ""]

\* a call not yet made: pc is the await the call is suspended at, found the
\* value it awaits, res the settlement of its promise
IdleCall ==
    [pc |-> "idle", data |-> NoData, presented |-> <<>>, userId |-> <<>>,
     found |-> NullUser, hashedPassword |-> <<>>,
     user |-> NullUser, token |-> <<>>, overlapped |-> FALSE, res |-> Rejected(NoError)]

Init ==
    /\ now = 0
    /\ revokedTokens = {}
    /\ users = <<>>
    /\ nextId = 1
    /\ issued = {}
    /\ revokeCalls = {}
    /\ lastOp = NoOp
    /\ calls = [c \in CallIds |-> IdleCall]

\* the clock never goes back
Tick(t) ==
    /\ t > now
    /\ now' = t
    /\ lastOp' = NoOp
    /\ UNCHANGED <<calls, revokedTokens, users, nextId, issued, revokeCalls>>

TsGenerateToken(userId) ==
    LET token == generateToken(userId, now)
        rec == [token |-> token, userId |-> userId, issuedAt |-> now]
    IN  /\ Cardinality(issued \cup {rec}) <= MaxIssued
        /\ issued' = issued \cup {rec}
        /\ lastOp' = [op |-> "generateToken", token |-> token]
        /\ UNCHANGED <<calls, now, revokedTokens, users, nextId, revokeCalls>>

TsValidateToken(token) ==
    /\ lastOp' = [op |-> "validateToken", token |-> token,
                  res |-> validateToken(token, revokedTokens, now)]
    /\ UNCHANGED <<calls, now, revokedTokens, users, nextId, issued, revokeCalls>>

TsRevokeToken(token) ==
    /\ Cardinality(revokedTokens \cup {token}) <= MaxRevoked
    /\ revokedTokens' = revokeToken(token, revokedTokens)
    /\ revokeCalls' = revokeCalls \cup {token}
    /\ lastOp' = [op |-> "revokeToken", token |-> token,
                  repeated |-> token \in revokedTokens]
    /\ UNCHANGED <<calls, now, users, nextId, issued>>

NextToken ==
    \/ \E t \in ClockReadings : Tick(t)
    \/ \E u \in TokenSubjects : TsGenerateToken(u)
    \/ \E t \in PresentedTokens : TsValidateToken(t)
    \/ \E t \in RevokedInputs : TsRevokeToken(t)

SpecToken == Init /\ [][NextToken]_vars

(***************************************************************************)
(* The checks of validateToken.  The strings presented here add, for each  *)
(* issued token, the token with its payload cut short and signed again by  *)
(* the holder of the secret, and the token with one payload character      *)
(* changed to a character that encodes no payload text.                    *)
(***************************************************************************)
\* header.payload signed with the secret of the service
Signed(encodedHeader, encodedPayload) ==
    encodedHeader \o <<".">> \o encodedPayload \o <<".">>
        \o createSignature(encodedHeader \o <<".">> \o encodedPayload)

\* the payload text without its closing brace, signed
SignedUndecodable(token) ==
    LET parts == Split(token, ".")
    IN  Signed(parts[1], SubSeq(parts[2], 1, Len(parts[2]) - 1))

\* the first digit of the subject id changed to a character outside the
\* payload text, under the signature of the issued token
UnsignedUndecodable(token) ==
    LET p == PayloadPositions(token)
        firstP == CHOOSE i \in p : \A j \in p : i <= j
    IN  [token EXCEPT ![firstP + 1] = "X"]

CheckedTokens ==
    PresentedTokens
        \cup {SignedUndecodable(t) : t \in IssuedTokens}
        \cup {UnsignedUndecodable(t) : t \in IssuedTokens}

NextChecks ==
    \/ \E t \in ClockReadings : Tick(t)
    \/ \E u \in TokenSubjects : TsGenerateToken(u)
    \/ \E t \in CheckedTokens : TsValidateToken(t)
    \/ \E t \in IssuedTokens : TsRevokeToken(t)

SpecChecks == Init /\ [][NextChecks]_vars

(***************************************************************************)
(* Inputs of the application.                                              *)
(***************************************************************************)
Emails == {"test@example.com", "different@example.com"}
Usernames == {"testuser", "different-user"}

\* 'Ab1!cdef' passes the strength rules, 'weak' does not
StrongPassword == <<"A", "b", "1", "!", "c", "d", "e", "f">>
WeakPassword == <<"w", "e", "a", "k">>
Passwords == {StrongPassword, WeakPassword}

Salts == {<<"5", "a">>}

\* a first user, a second one, the same email under another username, the
\* same username under another email, and a weak password
RegistrationInputs ==
    {[email |-> r[1], username |-> r[2], password |-> r[3],
      firstName |-> "John", lastName |-> "Doe"] :
        r \in {<<"test@example.com", "testuser", StrongPassword>>,
                <<"test@example.com", "different-user", StrongPassword>>,
                <<"different@example.com", "testuser", StrongPassword>>,
                <<"test@example.com", "testuser", WeakPassword>>}}

LoginInputs == [email : Emails, password : Passwords]

AppTokens == IssuedTokens \cup revokedTokens \cup {InvalidTokenHere}

BearerHeader(token) == <<"Bearer", " ">> \o token

AuthHeaders == {BearerHeader(t) : t \in AppTokens}

IssuedRecord(userId, t) ==
    [token |-> generateToken(userId, t), userId |-> userId, issuedAt |-> t]

MayIssue(userId) == Cardinality(issued \cup {IssuedRecord(userId, now)}) <= MaxIssued

\* Each call below is one step, taken at one clock reading: the clock does
\* not advance while the call runs.  SpecAsync runs register from await to
\* await with the clock advancing in between.
Register(userData, salt) ==
    LET error == RegisterError(users, userData)
        created == create(users, nextId, userData, hashPassword(userData.password, salt))
        user == created[NumberToString(nextId)]
    IN  IF error # NoError
        THEN /\ lastOp' = [op |-> "register", data |-> userData, res |-> Rejected(error)]
             /\ UNCHANGED <<calls, now, revokedTokens, users, nextId, issued, revokeCalls>>
        ELSE /\ nextId <= MaxUsers
             /\ MayIssue(user.id)
             /\ users' = created
             /\ nextId' = nextId + 1
             /\ issued' = issued \cup {IssuedRecord(user.id, now)}
             /\ lastOp' = [op |-> "register", data |-> userData,
                           res |-> Authenticated(user, generateToken(user.id, now),
                                                 getTokenExpiration(now))]
             /\ UNCHANGED <<calls, now, revokedTokens, revokeCalls>>

Login(loginData) ==
    LET error == LoginError(users, loginData)
        user == findByEmail(users, loginData.email)
    IN  IF error # NoError
        THEN /\ lastOp' = [op |-> "login", data |-> loginData, res |-> Rejected(error)]
             /\ UNCHANGED <<calls, now, revokedTokens, users, nextId, issued, revokeCalls>>
        ELSE /\ MayIssue(user.id)
             /\ users' = updateLastLogin(users, user.id, now)
             /\ issued' = issued \cup {IssuedRecord(user.id, now)}
             /\ lastOp' = [op |-> "login", data |-> loginData,
                           res |-> Authenticated(user, generateToken(user.id, now),
                                                 getTokenExpiration(now))]
             /\ UNCHANGED <<calls, now, revokedTokens, nextId, revokeCalls>>

\* DefaultAuthService.validateToken
AuthValidateToken(token) ==
    LET validated == validateToken(token, revokedTokens, now)
        error == IF ~validated.ok THEN ErrorOf("Error", <<validated.error>>)
                 ELSE SubjectError(users, validated.userId)
    IN  /\ lastOp' = [op |-> "authValidateToken", token |-> token,
                      res |-> IF error # NoError
                              THEN [ok |-> FALSE, error |-> error, user |-> NullUser]
                              ELSE [ok |-> TRUE, error |-> NoError,
                                    user |-> toUserResponse(findById(users, validated.userId))]]
        /\ UNCHANGED <<calls, now, revokedTokens, users, nextId, issued, revokeCalls>>

\* refreshToken that revokes the token it was given
RefreshToken_Revoking(token) ==
    LET validated == validateToken(token, revokedTokens, now)
        error == IF ~validated.ok THEN ErrorOf("Error", <<validated.error>>)
                 ELSE SubjectError(users, validated.userId)
        user == findById(users, validated.userId)
    IN  IF error # NoError
        THEN /\ lastOp' = [op |-> "refreshToken", token |-> token, res |-> Rejected(error)]
             /\ UNCHANGED <<calls, now, revokedTokens, users, nextId, issued, revokeCalls>>
        ELSE /\ MayIssue(user.id)
             /\ issued' = issued \cup {IssuedRecord(user.id, now)}
             /\ lastOp' = [op |-> "refreshToken", token |-> token,
                           res |-> Authenticated(user, generateToken(user.id, now),
                                                 getTokenExpiration(now))]
             /\ revokedTokens' = revokedTokens \cup {token}
             /\ UNCHANGED <<calls, now, users, nextId, revokeCalls>>

RefreshToken(token) ==
    LET validated == validateToken(token, revokedTokens, now)
        error == IF ~validated.ok THEN ErrorOf("Error", <<validated.error>>)
                 ELSE SubjectError(users, validated.userId)
        user == findById(users, validated.userId)
    IN  IF error # NoError
        THEN /\ lastOp' = [op |-> "refreshToken", token |-> token, res |-> Rejected(error)]
             /\ UNCHANGED <<calls, now, revokedTokens, users, nextId, issued, revokeCalls>>
        ELSE /\ MayIssue(user.id)
             /\ issued' = issued \cup {IssuedRecord(user.id, now)}
             /\ lastOp' = [op |-> "refreshToken", token |-> token,
                           res |-> Authenticated(user, generateToken(user.id, now),
                                                 getTokenExpiration(now))]
             /\ UNCHANGED <<calls, now, revokedTokens, users, nextId, revokeCalls>>

Logout(token) ==
    /\ Cardinality(revokedTokens \cup {token}) <= MaxRevoked
    /\ revokedTokens' = revokeToken(token, revokedTokens)
    /\ revokeCalls' = revokeCalls \cup {token}
    /\ lastOp' = [op |-> "logout", token |-> token, ok |-> TRUE]
    /\ UNCHANGED <<calls, now, users, nextId, issued>>

\* the middleware built over a token service of its own, whose revocation
\* set no logout reaches
Authenticate_OwnTokenService(authHeader) ==
    /\ lastOp' = [op |-> "authenticate", header |-> authHeader,
                  token |-> extractToken(authHeader),
                  res |-> authenticate(authHeader, users, {}, now)]
    /\ UNCHANGED <<calls, now, revokedTokens, users, nextId, issued, revokeCalls>>

\* DefaultAuthMiddleware.authenticate
Authenticate(authHeader) ==
    /\ lastOp' = [op |-> "authenticate", header |-> authHeader,
                  token |-> extractToken(authHeader),
                  res |-> authenticate(authHeader, users, revokedTokens, now)]
    /\ UNCHANGED <<calls, now, revokedTokens, users, nextId, issued, revokeCalls>>

\* InMemoryUserRepository.setActive and delete, called on the store
SetActive(id, isActive) ==
    /\ id \in DOMAIN users
    /\ users' = setActive(users, id, isActive)
    /\ lastOp' = NoOp
    /\ UNCHANGED <<calls, now, revokedTokens, nextId, issued, revokeCalls>>

\* delete that hands the id of the removed user out again
Delete_ReusingId(id) ==
    /\ users' = delete(users, id)
    /\ nextId' = IF id \in DOMAIN users THEN IdNumber(id) ELSE nextId
    /\ lastOp' = NoOp
    /\ UNCHANGED <<calls, now, revokedTokens, issued, revokeCalls>>

Delete(id) ==
    /\ users' = delete(users, id)
    /\ lastOp' = NoOp
    /\ UNCHANGED <<calls, now, revokedTokens, nextId, issued, revokeCalls>>

\* accounts: registration, login, activation, removal, and the two checks of
\* a presented token against the store
AuthClockReadings == {0, ExpirationMs + 1}

NextAuth ==
    \/ \E t \in AuthClockReadings : Tick(t)
    \/ \E d \in RegistrationInputs, salt \in Salts : Register(d, salt)
    \/ \E d \in LoginInputs : Login(d)
    \/ \E t \in AppTokens : AuthValidateToken(t)
    \/ \E h \in AuthHeaders : Authenticate(h)
    \/ \E id \in UserIdStrings, b \in BOOLEAN : SetActive(id, b)
    \/ \E id \in UserIdStrings : Delete(id)

SpecAuth == Init /\ [][NextAuth]_vars

\* sessions: every operation that issues or revokes a token, under the
\* clock, for one account
SessionRegistrations ==
    {d \in RegistrationInputs :
        d.email = "test@example.com" /\ d.username = "testuser" /\ d.password = StrongPassword}

SessionLogins ==
    {d \in LoginInputs : d.email = "test@example.com" /\ d.password = StrongPassword}

\* the time of issue, and two readings after the expiry of a token issued then
SessionClockReadings == {0, ExpirationMs + 1, ExpirationMs + 2}

NextSession ==
    \/ \E t \in SessionClockReadings : Tick(t)
    \/ \E userId \in TokenSubjects : TsGenerateToken(userId)
    \/ \E t \in IssuedTokens : TsValidateToken(t)
    \/ \E t \in IssuedTokens : TsRevokeToken(t)
    \/ \E d \in SessionRegistrations, salt \in Salts : Register(d, salt)
    \/ \E d \in SessionLogins : Login(d)
    \/ \E t \in IssuedTokens : RefreshToken(t)
    \/ \E t \in IssuedTokens : Logout(t)

SpecSession == Init /\ [][NextSession]_vars

\* the application for one account: every call of the authentication
\* service and of the middleware, activation and removal, under the clock
AccountRegistrations ==
    {d \in RegistrationInputs : d.email = "test@example.com" /\ d.username = "testuser"}

\* an issued token with the last character of its signature changed
WronglySigned(token) == [token EXCEPT ![Len(token)] = "X"]

\* the strings refreshToken is called with
RefreshInputs == AppTokens \cup GarbageTokens \cup {WronglySigned(t) : t \in IssuedTokens}

Next ==
    \/ \E t \in AuthClockReadings : Tick(t)
    \/ \E d \in AccountRegistrations, salt \in Salts : Register(d, salt)
    \/ \E d \in LoginInputs : Login(d)
    \/ \E t \in AppTokens : AuthValidateToken(t)
    \/ \E h \in AuthHeaders : Authenticate(h)
    \/ \E t \in RefreshInputs : RefreshToken(t)
    \/ \E t \in IssuedTokens \cup GarbageTokens : Logout(t)
    \/ \E id \in UserIdStrings, b \in BOOLEAN : SetActive(id, b)
    \/ \E id \in UserIdStrings : Delete(id)

Spec == Init /\ [][Next]_vars

(***************************************************************************)
(* Authorization.  requireRole and requirePermission read req.user only,   *)
(* so they are applied to requests whose req.user carries the roles drawn  *)
(* below, and to requests without req.user.                                *)
(***************************************************************************)
Permission(resource, action) == [resource |-> resource, action |-> action]

Resources == {"user", "report"}
PermissionActions == {"read", "write"}

\* no permission, each single permission on users and one on reports, and
\* two permissions that hold the resource 'user' and the action 'read'
\* between them
PermissionLists ==
    {<<>>,
     <<Permission("user", "read")>>,
     <<Permission("user", "write")>>,
     <<Permission("report", "read")>>,
     <<Permission("report", "write")>>,
     <<Permission("user", "write"), Permission("report", "read")>>}

RoleNames == {"admin", "Admin", "user"}

Roles == {[name |-> n, permissions |-> ps] : n \in RoleNames, ps \in PermissionLists}

RoleLists == {<<>>} \cup {<<r>> : r \in Roles} \cup {<<r, s>> : r \in Roles, s \in Roles}

\* req.user as authenticate sets it for the first account, holding roles
RequestUser(roles) ==
    [id |-> NumberToString(1),
     email |-> "test@example.com",
     username |-> "testuser",
     roles |-> roles,
     profile |-> [firstName |-> "John", lastName |-> "Doe", lastLoginAt |-> NoDate],
     isActive |-> TRUE]

RequestUsers == {NullUser} \cup {RequestUser(roles) : roles \in RoleLists}

RequireRole(reqUser, roleName) ==
    /\ lastOp' = [op |-> "requireRole", user |-> reqUser, roleName |-> roleName,
                  res |-> requireRole(reqUser, roleName)]
    /\ UNCHANGED <<calls, now, revokedTokens, users, nextId, issued, revokeCalls>>

RequirePermission(reqUser, resource, action) ==
    /\ lastOp' = [op |-> "requirePermission", user |-> reqUser,
                  resource |-> resource, action |-> action,
                  res |-> requirePermission(reqUser, resource, action)]
    /\ UNCHANGED <<calls, now, revokedTokens, users, nextId, issued, revokeCalls>>

NextRbac ==
    \/ \E u \in RequestUsers, n \in RoleNames : RequireRole(u, n)
    \/ \E u \in RequestUsers, r \in Resources, a \in PermissionActions :
          RequirePermission(u, r, a)

SpecRbac == Init /\ [][NextRbac]_vars

\* the /admin routes over the store, and requireRole on requests whose
\* req.user holds up to two roles without permissions
NamedRole(name) == [name |-> name, permissions |-> <<>>]

NamedRoleLists ==
    {<<>>} \cup {<<NamedRole(a)>> : a \in RoleNames}
           \cup {<<NamedRole(a), NamedRole(b)>> : a \in RoleNames, b \in RoleNames}

AdminRequestUsers == {NullUser} \cup {RequestUser(roles) : roles \in NamedRoleLists}

\* the Authorization headers of the requests: none, and a bearer token
AdminHeaders == {<<>>} \cup AuthHeaders

AdminRoute(authHeader) ==
    /\ lastOp' = [op |-> "adminRoute", token |-> extractToken(authHeader),
                  res |-> adminRoute(authHeader, users, revokedTokens, now)]
    /\ UNCHANGED <<calls, now, revokedTokens, users, nextId, issued, revokeCalls>>

NextAdmin ==
    \/ \E t \in AuthClockReadings : Tick(t)
    \/ \E d \in SessionRegistrations, salt \in Salts : Register(d, salt)
    \/ \E t \in IssuedTokens : Logout(t)
    \/ \E id \in UserIdStrings, b \in BOOLEAN : SetActive(id, b)
    \/ \E id \in UserIdStrings : Delete(id)
    \/ \E h \in AdminHeaders : AdminRoute(h)
    \/ \E u \in AdminRequestUsers, n \in RoleNames : RequireRole(u, n)

SpecAdmin == Init /\ [][NextAdmin]_vars

(***************************************************************************)
(* The responses of the controllers.  The handlers of the AdminController  *)
(* are invoked as their routes invoke them once requireAdmin has called    *)
(* next.                                                                   *)
(***************************************************************************)
\* the body of PUT /users/profile
ProfileUpdates == {[firstName |-> "Jane"]}

\* the bodies of POST /admin/users
AdminCreations == {d \in RegistrationInputs : d.password = StrongPassword}

GetProfile(authHeader) ==
    /\ lastOp' = [op |-> "getProfile", token |-> extractToken(authHeader),
                  res |-> profileRoute(authHeader, users, revokedTokens, now)]
    /\ UNCHANGED <<calls, now, revokedTokens, users, nextId, issued, revokeCalls>>

\* PUT /users/profile: authenticate, then UserController.updateProfile
UpdateProfileAfter(token, updateData, authenticated) ==
    LET updated == updateProfile(users, authenticated.user.id, updateData)
    IN  IF ~authenticated.next
        THEN /\ lastOp' = [op |-> "updateProfile", token |-> token,
                           res |-> Failure(authenticated.status, authenticated.error)]
             /\ UNCHANGED <<calls, now, revokedTokens, users, nextId, issued, revokeCalls>>
        ELSE /\ users' = updated
             /\ lastOp' = [op |-> "updateProfile", token |-> token,
                           res |-> Success(200, sanitizedUser(updated[authenticated.user.id]))]
             /\ UNCHANGED <<calls, now, revokedTokens, nextId, issued, revokeCalls>>

UpdateProfile(authHeader, updateData) ==
    UpdateProfileAfter(extractToken(authHeader), updateData,
                       authenticate(authHeader, users, revokedTokens, now))

AdminGetAllUsers ==
    /\ lastOp' = [op |-> "getAllUsers", res |-> getAllUsers(users)]
    /\ UNCHANGED <<calls, now, revokedTokens, users, nextId, issued, revokeCalls>>

AdminGetUserById(id) ==
    /\ lastOp' = [op |-> "getUserById", id |-> id, res |-> getUserById(users, id)]
    /\ UNCHANGED <<calls, now, revokedTokens, users, nextId, issued, revokeCalls>>

\* AdminController.createUser with a body without roleIds
AdminCreateUser(userData, salt) ==
    LET passwordValidation == validatePasswordStrength(userData.password)
        created == create(users, nextId, userData, hashPassword(userData.password, salt))
        refusal ==
            IF findByEmail(users, userData.email) # NullUser
                THEN Failure(409, <<"User with this email already exists">>)
            ELSE IF findByUsername(users, userData.username) # NullUser
                THEN Failure(409, <<"User with this username already exists">>)
            ELSE IF ~passwordValidation.isValid
                THEN Failure(400, <<"Password validation failed">>)
            ELSE Success(0, NullUser)
    IN  IF refusal.status # 0
        THEN /\ lastOp' = [op |-> "createUser", data |-> userData, res |-> refusal]
             /\ UNCHANGED <<calls, now, revokedTokens, users, nextId, issued, revokeCalls>>
        ELSE /\ nextId <= MaxUsers
             /\ users' = created
             /\ nextId' = nextId + 1
             /\ lastOp' = [op |-> "createUser", data |-> userData,
                           res |-> Success(201, sanitizedUser(created[NumberToString(nextId)]))]
             /\ UNCHANGED <<calls, now, revokedTokens, issued, revokeCalls>>

\* AdminController.updateUser with the body {isActive}
AdminUpdateUser(id, isActive) ==
    IF findById(users, id) = NullUser
    THEN /\ lastOp' = [op |-> "updateUser", id |-> id,
                       res |-> Failure(404, UserNotFoundError(id).message)]
         /\ UNCHANGED <<calls, now, revokedTokens, users, nextId, issued, revokeCalls>>
    ELSE /\ users' = setActive(users, id, isActive)
         /\ lastOp' = [op |-> "updateUser", id |-> id,
                       res |-> Success(200, sanitizedUser(setActive(users, id, isActive)[id]))]
         /\ UNCHANGED <<calls, now, revokedTokens, nextId, issued, revokeCalls>>

NextResponses ==
    \/ \E d \in SessionRegistrations, salt \in Salts : Register(d, salt)
    \/ \E d \in SessionLogins : Login(d)
    \/ \E t \in IssuedTokens : RefreshToken(t)
    \/ \E t \in IssuedTokens : AuthValidateToken(t)
    \/ \E h \in AuthHeaders : Authenticate(h)
    \/ \E h \in AdminHeaders : GetProfile(h)
    \/ \E h \in AdminHeaders, d \in ProfileUpdates : UpdateProfile(h, d)
    \/ AdminGetAllUsers
    \/ \E id \in UserIdStrings : AdminGetUserById(id)
    \/ \E d \in AdminCreations, salt \in Salts : AdminCreateUser(d, salt)
    \/ \E id \in UserIdStrings, b \in BOOLEAN : AdminUpdateUser(id, b)

SpecResponses == Init /\ [][NextResponses]_vars

(***************************************************************************)
(* The password policy.  validatePasswordStrength is applied to the        *)
(* passwords of the test suite and to passwords put together from a stem   *)
(* and an ending, so that every rule is violated alone and with others.    *)
(***************************************************************************)
strongPassword ==
    <<"S", "t", "r", "o", "n", "g", "P", "a", "s", "s", "w", "o", "r", "d",
      "1", "2", "3", "!">>

mockPassword ==
    <<"T", "e", "s", "t", "P", "a", "s", "s", "w", "o", "r", "d", "1", "2",
      "3", "!">>

shortPassword ==
    <<"S", "h", "o", "r", "t", "1", "!">>

noUppercasePassword ==
    <<"t", "e", "s", "t", "p", "a", "s", "s", "w", "o", "r", "d", "1", "2",
      "3", "!">>

noLowercasePassword ==
    <<"T", "E", "S", "T", "P", "A", "S", "S", "W", "O", "R", "D", "1", "2",
      "3", "!">>

noNumberPassword ==
    <<"T", "e", "s", "t", "P", "a", "s", "s", "w", "o", "r", "d", "!">>

noSpecialCharPassword ==
    <<"T", "e", "s", "t", "P", "a", "s", "s", "w", "o", "r", "d", "1", "2",
      "3">>

consecutiveCharsPassword ==
    <<"T", "e", "s", "t", "P", "a", "s", "s", "w", "o", "r", "d", "1", "1",
      "1", "!">>

veryWeakPassword ==
    <<"p", "a", "s", "s">>

specialCharacters ==
    <<"!", "@", "#", "$", "%", "^", "&", "*", "(", ")", "_", "+", "-", "=",
      "[", "]", "{", "}", ";", "'", ":", "\"", "|", ",", ".", "<", ">",
      "?", "/">>

commonWordPasswords ==
    {<<"P", "a", "s", "s", "w", "o", "r", "d", "1", "2", "3", "!">>,
     <<"A", "d", "m", "i", "n", "1", "2", "3", "!">>,
     <<"Q", "w", "e", "r", "t", "y", "1", "2", "3", "!">>,
     <<"L", "e", "t", "m", "e", "i", "n", "1", "2", "3", "!">>}

\* String.prototype.repeat
Repeat(s, n) == [i \in 1..(n * Len(s)) |-> s[((i - 1) % Len(s)) + 1]]

\* 'A'.repeat(130) + '1!'
longPassword == Repeat(<<"A">>, 130) \o <<"1", "!">>

\* the passwords `TestPassword123${char}`
SpecialCharacterPasswords ==
    {noSpecialCharPassword \o <<specialCharacters[i]>> : i \in 1..Len(specialCharacters)}

TestSuitePasswords ==
    {strongPassword, mockPassword, shortPassword, longPassword, noUppercasePassword,
     noLowercasePassword, noNumberPassword, noSpecialCharPassword,
     consecutiveCharsPassword, veryWeakPassword, <<>>}
        \cup commonWordPasswords \cup SpecialCharacterPasswords

\* eight lowercase letters, which the endings complete to a password that
\* satisfies every rule or leave short of some
LowercaseStem == <<"b", "c", "d", "e", "f", "g", "h", "i">>

\* nothing, eight characters without a lowercase letter, and a denylisted
\* word in mixed case
OtherStems ==
    {<<>>,
     <<"B", "C", "D", "2", "#", "F", "G", "H">>,
     <<"P", "a", "s", "s", "W", "o", "r", "d">>}

\* 132 characters that satisfy every other rule
LongStem == Repeat(<<"B", "c", "2", "#">>, 33)

\* an uppercase letter, a lowercase letter, a digit, a special character, a
\* line feed
EndingChars == {"A", "a", "1", "!", "\n"}

\* up to two characters, and one character three times
ShortEndings ==
    {<<>>} \cup {<<a>> : a \in EndingChars}
           \cup {<<a, b>> : a \in EndingChars, b \in EndingChars}
           \cup {<<a, a, a>> : a \in EndingChars}

\* up to three characters
PasswordEndings ==
    ShortEndings \cup {<<a, b, c>> : a \in EndingChars, b \in EndingChars, c \in EndingChars}

ValidatedPasswords ==
    TestSuitePasswords
        \cup {LowercaseStem \o ending : ending \in PasswordEndings}
        \cup {stem \o ending : stem \in OtherStems, ending \in ShortEndings}
        \cup {LongStem, LongStem \o <<"\n", "\n", "\n">>,
              StrongPassword \o <<"\n", "\n", "\n">>}

\* mockUserRegistrationData of the test suite of the authentication service
mockUserRegistrationData ==
    [email |-> "test@example.com", username |-> "testuser", password |-> mockPassword,
     firstName |-> "John", lastName |-> "Doe"]

ValidatePasswordStrength(password) ==
    /\ lastOp' = [op |-> "validatePasswordStrength", password |-> password,
                  res |-> validatePasswordStrength(password)]
    /\ UNCHANGED <<calls, now, revokedTokens, users, nextId, issued, revokeCalls>>

NextPassword ==
    \/ \E password \in ValidatedPasswords : ValidatePasswordStrength(password)
    \/ \E salt \in Salts : Register(mockUserRegistrationData, salt)

SpecPassword == Init /\ [][NextPassword]_vars

(***************************************************************************)
(* DefaultAuthService.register from await to await.  The body of an async  *)
(* function runs until its next await; findByEmail, findByUsername,        *)
(* hashPassword, create and generateToken are async functions without an   *)
(* await of their own, so each reads or writes the store when it is        *)
(* called, and the caller resumes in a later turn.                         *)
(***************************************************************************)
InFlight(c) == calls[c].pc \notin {"idle", "fulfilled", "rejected"}

Settle(c, res) ==
    calls' = [calls EXCEPT ![c] = [@ EXCEPT !.pc = IF res.ok THEN "fulfilled" ELSE "rejected",
                                            !.res = res]]

\* the call is made: password strength, then findByEmail is called
RegisterStart(c, userData) ==
    LET passwordValidation == validatePasswordStrength(userData.password)
        started == [calls[c] EXCEPT !.data = userData,
                                    !.overlapped = \E o \in CallIds \ {c} : InFlight(o)]
    IN  /\ calls[c].pc = "idle"
        /\ calls' = [calls EXCEPT ![c] =
              IF ~passwordValidation.isValid
              THEN [started EXCEPT !.pc = "rejected",
                                   !.res = Rejected(PasswordValidationError(passwordValidation.errors))]
              ELSE [started EXCEPT !.pc = "findByEmail",
                                   !.found = findByEmail(users, userData.email)]]
        /\ UNCHANGED <<now, revokedTokens, users, nextId, issued, revokeCalls, lastOp>>

RegisterAfterFindByEmail(c) ==
    /\ calls[c].pc = "findByEmail"
    /\ IF calls[c].found # NullUser
       THEN Settle(c, Rejected(UserAlreadyExistsError("email", calls[c].data.email)))
       ELSE calls' = [calls EXCEPT ![c] =
                [@ EXCEPT !.pc = "findByUsername",
                          !.found = findByUsername(users, calls[c].data.username)]]
    /\ UNCHANGED <<now, revokedTokens, users, nextId, issued, revokeCalls, lastOp>>

RegisterAfterFindByUsername(c, salt) ==
    /\ calls[c].pc = "findByUsername"
    /\ IF calls[c].found # NullUser
       THEN Settle(c, Rejected(UserAlreadyExistsError("username", calls[c].data.username)))
       ELSE calls' = [calls EXCEPT ![c] =
                [@ EXCEPT !.pc = "hashPassword",
                          !.hashedPassword = hashPassword(calls[c].data.password, salt)]]
    /\ UNCHANGED <<now, revokedTokens, users, nextId, issued, revokeCalls, lastOp>>

RegisterAfterHashPassword(c) ==
    LET created == create(users, nextId, calls[c].data, calls[c].hashedPassword)
    IN  /\ calls[c].pc = "hashPassword"
        /\ nextId <= MaxUsers
        /\ users' = created
        /\ nextId' = nextId + 1
        /\ calls' = [calls EXCEPT ![c] = [@ EXCEPT !.pc = "create",
                                                   !.user = created[NumberToString(nextId)]]]
        /\ UNCHANGED <<now, revokedTokens, issued, revokeCalls, lastOp>>

RegisterAfterCreate(c) ==
    /\ calls[c].pc = "create"
    /\ MayIssue(calls[c].user.id)
    /\ issued' = issued \cup {IssuedRecord(calls[c].user.id, now)}
    /\ calls' = [calls EXCEPT ![c] = [@ EXCEPT !.pc = "generateToken",
                                               !.token = generateToken(calls[c].user.id, now)]]
    /\ UNCHANGED <<now, revokedTokens, users, nextId, revokeCalls, lastOp>>

RegisterAfterGenerateToken(c) ==
    /\ calls[c].pc = "generateToken"
    /\ Settle(c, Authenticated(calls[c].user, calls[c].token, getTokenExpiration(now)))
    /\ UNCHANGED <<now, revokedTokens, users, nextId, issued, revokeCalls, lastOp>>

NextAsync ==
    \/ \E t \in AuthClockReadings : Tick(t)
    \/ \E c \in CallIds, d \in RegistrationInputs : RegisterStart(c, d)
    \/ \E c \in CallIds : RegisterAfterFindByEmail(c)
    \/ \E c \in CallIds, salt \in Salts : RegisterAfterFindByUsername(c, salt)
    \/ \E c \in CallIds : RegisterAfterHashPassword(c)
    \/ \E c \in CallIds : RegisterAfterCreate(c)
    \/ \E c \in CallIds : RegisterAfterGenerateToken(c)

SpecAsync == Init /\ [][NextAsync]_vars

(***************************************************************************)
(* DefaultAuthService.login from await to await, next to register and to   *)
(* the calls that write the store.  Each method of the repository is an    *)
(* async function without an await: it reads the Map and writes it in one   *)
(* turn.  A call that is never resumed is a call abandoned at that await.  *)
(***************************************************************************)
\* the call is made: findByEmail is called
LoginStart(c, loginData) ==
    /\ calls[c].pc = "idle"
    /\ calls' = [calls EXCEPT ![c] =
          [@ EXCEPT !.data = loginData,
                    !.pc = "login.findByEmail",
                    !.found = findByEmail(users, loginData.email),
                    !.overlapped = \E o \in CallIds \ {c} : InFlight(o)]]
    /\ UNCHANGED <<now, revokedTokens, users, nextId, issued, revokeCalls, lastOp>>

\* verifyPassword is called with the hash of the user that was found
LoginAfterFindByEmail(c) ==
    /\ calls[c].pc = "login.findByEmail"
    /\ IF calls[c].found = NullUser
       THEN Settle(c, Rejected(InvalidCredentialsError))
       ELSE calls' = [calls EXCEPT ![c] = [@ EXCEPT !.pc = "login.verifyPassword",
                                                    !.user = calls[c].found]]
    /\ UNCHANGED <<now, revokedTokens, users, nextId, issued, revokeCalls, lastOp>>

\* login that writes the user it read back with a new lastLoginAt
LoginAfterVerifyPassword_StaleWrite(c) ==
    LET user == calls[c].user
    IN  /\ calls[c].pc = "login.verifyPassword"
        /\ IF ~verifyPassword(calls[c].data.password, user.hashedPassword)
           THEN /\ Settle(c, Rejected(InvalidCredentialsError))
                /\ UNCHANGED users
           ELSE IF ~user.isActive
           THEN /\ Settle(c, Rejected(DeactivatedError))
                /\ UNCHANGED users
           ELSE IF user.id \notin DOMAIN users
           THEN /\ Settle(c, Rejected(ErrorOf("Error", <<"User not found">>)))
                /\ UNCHANGED users
           ELSE /\ users' = MapSet(users, user.id, [user EXCEPT !.profile.lastLoginAt = now])
                /\ calls' = [calls EXCEPT ![c] = [@ EXCEPT !.pc = "login.updateLastLogin"]]
        /\ UNCHANGED <<now, revokedTokens, nextId, issued, revokeCalls, lastOp>>

\* the password and the active flag of the user that was found are checked,
\* then updateLastLogin(user.id) is called: it reads the Map again
LoginAfterVerifyPassword(c) ==
    LET user == calls[c].user
    IN  /\ calls[c].pc = "login.verifyPassword"
        /\ IF ~verifyPassword(calls[c].data.password, user.hashedPassword)
           THEN /\ Settle(c, Rejected(InvalidCredentialsError))
                /\ UNCHANGED users
           ELSE IF ~user.isActive
           THEN /\ Settle(c, Rejected(DeactivatedError))
                /\ UNCHANGED users
           ELSE IF user.id \notin DOMAIN users
           THEN /\ Settle(c, Rejected(ErrorOf("Error", <<"User not found">>)))
                /\ UNCHANGED users
           ELSE /\ users' = updateLastLogin(users, user.id, now)
                /\ calls' = [calls EXCEPT ![c] = [@ EXCEPT !.pc = "login.updateLastLogin"]]
        /\ UNCHANGED <<now, revokedTokens, nextId, issued, revokeCalls, lastOp>>

LoginAfterUpdateLastLogin(c) ==
    /\ calls[c].pc = "login.updateLastLogin"
    /\ MayIssue(calls[c].user.id)
    /\ issued' = issued \cup {IssuedRecord(calls[c].user.id, now)}
    /\ calls' = [calls EXCEPT ![c] = [@ EXCEPT !.pc = "login.generateToken",
                                               !.token = generateToken(calls[c].user.id, now)]]
    /\ UNCHANGED <<now, revokedTokens, users, nextId, revokeCalls, lastOp>>

LoginAfterGenerateToken(c) ==
    /\ calls[c].pc = "login.generateToken"
    /\ Settle(c, Authenticated(calls[c].user, calls[c].token, getTokenExpiration(now)))
    /\ UNCHANGED <<now, revokedTokens, users, nextId, issued, revokeCalls, lastOp>>

\* InMemoryUserRepository.updateProfile and updatePassword, called on the
\* store: on a user that is not present they throw and write nothing
StoreUpdateProfile(id, profileData) ==
    /\ id \in DOMAIN users
    /\ users' = updateProfile(users, id, profileData)
    /\ lastOp' = NoOp
    /\ UNCHANGED <<calls, now, revokedTokens, nextId, issued, revokeCalls>>

StoreUpdatePassword(id, hashedPassword) ==
    /\ id \in DOMAIN users
    /\ users' = updatePassword(users, id, hashedPassword)
    /\ lastOp' = NoOp
    /\ UNCHANGED <<calls, now, revokedTokens, nextId, issued, revokeCalls>>

\* a second password that passes validatePasswordStrength
NewPassword == <<"Z", "y", "9", "?", "w", "v", "u", "t">>

NextStore ==
    \/ \E c \in CallIds, d \in SessionRegistrations : RegisterStart(c, d)
    \/ \E c \in CallIds : RegisterAfterFindByEmail(c)
    \/ \E c \in CallIds, salt \in Salts : RegisterAfterFindByUsername(c, salt)
    \/ \E c \in CallIds : RegisterAfterHashPassword(c)
    \/ \E c \in CallIds : RegisterAfterCreate(c)
    \/ \E c \in CallIds : RegisterAfterGenerateToken(c)
    \/ \E c \in CallIds, d \in SessionLogins : LoginStart(c, d)
    \/ \E c \in CallIds : LoginAfterFindByEmail(c)
    \/ \E c \in CallIds : LoginAfterVerifyPassword(c)
    \/ \E c \in CallIds : LoginAfterUpdateLastLogin(c)
    \/ \E c \in CallIds : LoginAfterGenerateToken(c)
    \/ \E id \in UserIdStrings, b \in BOOLEAN : SetActive(id, b)
    \/ \E id \in UserIdStrings, d \in ProfileUpdates : StoreUpdateProfile(id, d)
    \/ \E id \in UserIdStrings, salt \in Salts :
          StoreUpdatePassword(id, hashPassword(NewPassword, salt))
    \/ \E id \in UserIdStrings : Delete(id)
    \/ \E t \in IssuedTokens : Logout(t)

SpecStore == Init /\ [][NextStore]_vars

(***************************************************************************)
(* DefaultAuthService.refreshToken from await to await, next to login,     *)
(* logout and the calls that activate and remove a user.  generateToken    *)
(* is an async function without an await: the token exists when it is      *)
(* called.                                                                 *)
(***************************************************************************)
\* the call is made: the token service validates the presented token
RefreshStart(c, token) ==
    LET validated == validateToken(token, revokedTokens, now)
    IN  /\ calls[c].pc = "idle"
        /\ calls' = [calls EXCEPT ![c] =
              IF ~validated.ok
              THEN [@ EXCEPT !.presented = token,
                             !.pc = "rejected",
                             !.res = Rejected(ErrorOf("Error", <<validated.error>>))]
              ELSE [@ EXCEPT !.presented = token,
                             !.pc = "refresh.validateToken",
                             !.userId = validated.userId,
                             !.overlapped = \E o \in CallIds \ {c} : InFlight(o)]]
        /\ UNCHANGED <<now, revokedTokens, users, nextId, issued, revokeCalls, lastOp>>

\* findById is called with the subject of the token
RefreshAfterValidateToken(c) ==
    /\ calls[c].pc = "refresh.validateToken"
    /\ calls' = [calls EXCEPT ![c] = [@ EXCEPT !.pc = "refresh.findById",
                                               !.found = findById(users, calls[c].userId)]]
    /\ UNCHANGED <<now, revokedTokens, users, nextId, issued, revokeCalls, lastOp>>

\* the user that was found is checked, then generateToken is called
RefreshAfterFindById(c) ==
    LET user == calls[c].found
    IN  /\ calls[c].pc = "refresh.findById"
        /\ IF user = NullUser
           THEN /\ Settle(c, Rejected(UserNotFoundError(calls[c].userId)))
                /\ UNCHANGED issued
           ELSE IF ~user.isActive
           THEN /\ Settle(c, Rejected(DeactivatedError))
                /\ UNCHANGED issued
           ELSE /\ MayIssue(user.id)
                /\ issued' = issued \cup {IssuedRecord(user.id, now)}
                /\ calls' = [calls EXCEPT ![c] =
                      [@ EXCEPT !.pc = "refresh.generateToken",
                                !.user = user,
                                !.token = generateToken(user.id, now)]]
        /\ UNCHANGED <<now, revokedTokens, users, nextId, revokeCalls, lastOp>>

\* getTokenExpiration is read and the result returned
RefreshAfterGenerateToken(c) ==
    /\ calls[c].pc = "refresh.generateToken"
    /\ Settle(c, Authenticated(calls[c].user, calls[c].token, getTokenExpiration(now)))
    /\ UNCHANGED <<now, revokedTokens, users, nextId, issued, revokeCalls, lastOp>>

\* the time of the registration and one millisecond later
RaceClockReadings == {0, 1}

\* one login and one refresh in flight
LoginCall == 1
RefreshCall == 2

NextRace ==
    \/ \E t \in RaceClockReadings : Tick(t)
    \/ \E d \in SessionRegistrations, salt \in Salts : Register(d, salt)
    \/ \E d \in SessionLogins : LoginStart(LoginCall, d)
    \/ LoginAfterFindByEmail(LoginCall)
    \/ LoginAfterVerifyPassword(LoginCall)
    \/ LoginAfterUpdateLastLogin(LoginCall)
    \/ LoginAfterGenerateToken(LoginCall)
    \/ \E t \in IssuedTokens : RefreshStart(RefreshCall, t)
    \/ RefreshAfterValidateToken(RefreshCall)
    \/ RefreshAfterFindById(RefreshCall)
    \/ RefreshAfterGenerateToken(RefreshCall)
    \/ \E id \in UserIdStrings, b \in BOOLEAN : SetActive(id, b)
    \/ \E id \in UserIdStrings : Delete(id)
    \/ \E t \in IssuedTokens : Logout(t)

SpecRace == Init /\ [][NextRace]_vars

(***************************************************************************)
(* UserController.  A request body is a record of its fields; a field that *)
(* is absent holds the empty string, which the handlers treat as they      *)
(* treat an absent one.  A thrown value is recorded with the class that    *)
(* constructed it in `name`.                                               *)
(***************************************************************************)
\* the characters of the email addresses presented to the controller
EmailText(email) ==
    CASE email = "test@example.com" ->
            <<"t", "e", "s", "t", "@", "e", "x", "a", "m", "p", "l", "e",
            ".", "c", "o", "m">>
      [] email = "different@example.com" ->
            <<"d", "i", "f", "f", "e", "r", "e", "n", "t", "@", "e", "x",
            "a", "m", "p", "l", "e", ".", "c", "o", "m">>
      [] email = "invalid-email" ->
            <<"i", "n", "v", "a", "l", "i", "d", "-", "e", "m", "a", "i",
            "l">>

WhiteSpace == {" ", "\t", "\n", "\r"}

\* /^[^\s@]+@[^\s@]+\.[^\s@]+$/.test(email)
emailRegexTest(email) ==
    LET s == EmailText(email)
    IN  \E i \in 2..Len(s) :
            /\ s[i] = "@"
            /\ \A k \in (1..Len(s)) \ {i} : s[k] \notin WhiteSpace \cup {"@"}
            /\ \E j \in (i + 2)..(Len(s) - 1) : s[j] = "."

\* the Error validateRegistrationData throws, NoError when it returns the data
validateRegistrationData(body) ==
    IF body.email = "" THEN ErrorOf("Error", <<"Valid email is required">>)
    ELSE IF body.username = "" THEN ErrorOf("Error", <<"Valid username is required">>)
    ELSE IF body.password = <<>> THEN ErrorOf("Error", <<"Valid password is required">>)
    ELSE IF body.firstName = "" THEN ErrorOf("Error", <<"Valid first name is required">>)
    ELSE IF body.lastName = "" THEN ErrorOf("Error", <<"Valid last name is required">>)
    ELSE IF ~emailRegexTest(body.email) THEN ErrorOf("Error", <<"Invalid email format">>)
    ELSE NoError

validateLoginData(body) ==
    IF body.email = "" THEN ErrorOf("Error", <<"Valid email is required">>)
    ELSE IF body.password = <<>> THEN ErrorOf("Error", <<"Valid password is required">>)
    ELSE NoError

\* the classes of the thrown values that are instances of Error
ErrorClasses ==
    {"Error", "TypeError", "UserNotFoundError", "InvalidCredentialsError",
     "UserAlreadyExistsError", "InsufficientPermissionsError"}

\* handleError answering every Error alike
handleError_BadRequestForAll(error) ==
    IF error.name \in ErrorClasses THEN Failure(400, error.message)
    ELSE Failure(500, <<"Internal server error">>)

handleError(error) ==
    IF error.name = "UserAlreadyExistsError" THEN Failure(409, error.message)
    ELSE IF error.name = "InvalidCredentialsError" THEN Failure(401, error.message)
    ELSE IF error.name = "UserNotFoundError" THEN Failure(404, error.message)
    ELSE IF error.name \in ErrorClasses THEN Failure(400, error.message)
    ELSE Failure(500, <<"Internal server error">>)

\* the outcome of a handler: the value its try block caught (NoError when
\* none) and the response it sent
Handled(op, input, thrown, response) ==
    [op |-> op, input |-> input, thrown |-> thrown, res |-> response]

\* POST /auth/register
UserRegister(body, salt) ==
    LET invalid == validateRegistrationData(body)
        error == IF invalid # NoError THEN invalid ELSE RegisterError(users, body)
        created == create(users, nextId, body, hashPassword(body.password, salt))
        user == created[NumberToString(nextId)]
    IN  IF error # NoError
        THEN /\ lastOp' = Handled("UserController.register", body, error, handleError(error))
             /\ UNCHANGED <<calls, now, revokedTokens, users, nextId, issued, revokeCalls>>
        ELSE /\ nextId <= MaxUsers
             /\ MayIssue(user.id)
             /\ users' = created
             /\ nextId' = nextId + 1
             /\ issued' = issued \cup {IssuedRecord(user.id, now)}
             /\ lastOp' = Handled("UserController.register", body, NoError,
                                  Success(201, Authenticated(user, generateToken(user.id, now),
                                                             getTokenExpiration(now))))
             /\ UNCHANGED <<calls, now, revokedTokens, revokeCalls>>

\* POST /auth/register over an authentication service whose register
\* rejects with the value `thrown`, as the test suite sets it up
UserRegisterServiceRejects(body, thrown) ==
    LET invalid == validateRegistrationData(body)
        error == IF invalid # NoError THEN invalid ELSE thrown
    IN  /\ lastOp' = Handled("UserController.register", body, error, handleError(error))
        /\ UNCHANGED <<calls, now, revokedTokens, users, nextId, issued, revokeCalls>>

\* POST /auth/login
UserLogin(body) ==
    LET invalid == validateLoginData(body)
        error == IF invalid # NoError THEN invalid ELSE LoginError(users, body)
        user == findByEmail(users, body.email)
    IN  IF error # NoError
        THEN /\ lastOp' = Handled("UserController.login", body, error, handleError(error))
             /\ UNCHANGED <<calls, now, revokedTokens, users, nextId, issued, revokeCalls>>
        ELSE /\ MayIssue(user.id)
             /\ users' = updateLastLogin(users, user.id, now)
             /\ issued' = issued \cup {IssuedRecord(user.id, now)}
             /\ lastOp' = Handled("UserController.login", body, NoError,
                                  Success(200, Authenticated(user, generateToken(user.id, now),
                                                             getTokenExpiration(now))))
             /\ UNCHANGED <<calls, now, revokedTokens, nextId, revokeCalls>>

\* POST /auth/refresh with the body {token}
UserRefreshToken(token) ==
    LET validated == validateToken(token, revokedTokens, now)
        error == IF ~validated.ok THEN ErrorOf("Error", <<validated.error>>)
                 ELSE SubjectError(users, validated.userId)
        user == findById(users, validated.userId)
    IN  IF token = <<>>
        THEN /\ lastOp' = Handled("UserController.refreshToken", token, NoError,
                                  Failure(400, <<"Token is required">>))
             /\ UNCHANGED <<calls, now, revokedTokens, users, nextId, issued, revokeCalls>>
        ELSE IF error # NoError
        THEN /\ lastOp' = Handled("UserController.refreshToken", token, error,
                                  handleError(error))
             /\ UNCHANGED <<calls, now, revokedTokens, users, nextId, issued, revokeCalls>>
        ELSE /\ MayIssue(user.id)
             /\ issued' = issued \cup {IssuedRecord(user.id, now)}
             /\ lastOp' = Handled("UserController.refreshToken", token, NoError,
                                  Success(200, Authenticated(user, generateToken(user.id, now),
                                                             getTokenExpiration(now))))
             /\ UNCHANGED <<calls, now, revokedTokens, users, nextId, revokeCalls>>

\* POST /auth/logout with the body {token}
UserLogout(token) ==
    IF token = <<>>
    THEN /\ lastOp' = Handled("UserController.logout", token, NoError,
                              Failure(400, <<"Token is required">>))
         /\ UNCHANGED <<calls, now, revokedTokens, users, nextId, issued, revokeCalls>>
    ELSE /\ Cardinality(revokedTokens \cup {token}) <= MaxRevoked
         /\ revokedTokens' = revokeToken(token, revokedTokens)
         /\ revokeCalls' = revokeCalls \cup {token}
         /\ lastOp' = Handled("UserController.logout", token, NoError, Success(200, NullUser))
         /\ UNCHANGED <<calls, now, users, nextId, issued>>

\* the bodies of POST /auth/register: the registrations of one account, a
\* body with an email only, and a body whose email has no '@'
IncompleteData ==
    [email |-> "test@example.com", username |-> "", password |-> <<>>,
     firstName |-> "", lastName |-> ""]

InvalidEmailData ==
    [email |-> "invalid-email", username |-> "testuser", password |-> StrongPassword,
     firstName |-> "John", lastName |-> "Doe"]

RegisterBodies == AccountRegistrations \cup {IncompleteData, InvalidEmailData}

LoginBodies ==
    {d \in LoginInputs : d.email = "test@example.com"}
        \cup {[email |-> "test@example.com", password |-> <<>>]}

\* the values the mocked register rejects with: new Error('Service error'),
\* a UserNotFoundError, and a string, which is not an Error
ThrownValues ==
    {ErrorOf("Error", <<"Service error">>),
     UserNotFoundError(NumberToString(1)),
     ErrorOf("string", <<"Service error">>)}

NextController ==
    \/ \E t \in AuthClockReadings : Tick(t)
    \/ \E d \in RegisterBodies, salt \in Salts : UserRegister(d, salt)
    \/ \E d \in SessionRegistrations, e \in ThrownValues : UserRegisterServiceRejects(d, e)
    \/ \E d \in LoginBodies : UserLogin(d)
    \/ \E t \in RefreshInputs \cup {<<>>} : UserRefreshToken(t)
    \/ \E t \in IssuedTokens \cup {<<>>} : UserLogout(t)
    \/ \E id \in UserIdStrings, b \in BOOLEAN : SetActive(id, b)
    \/ \E id \in UserIdStrings : Delete(id)

SpecController == Init /\ [][NextController]_vars

(***************************************************************************)
(* The authenticate middleware under every shape of the Authorization      *)
(* header: absent, another scheme, the scheme in lower case, the scheme    *)
(* alone, an empty token, and a third part after the token.                *)
(***************************************************************************)
NoHeader == <<>>

HeaderShapes(token) ==
    {BearerHeader(token),
     <<"Basic", " ">> \o token,
     <<"bearer", " ">> \o token,
     <<"Bearer">> \o token,
     BearerHeader(token) \o <<" ", "x">>}

RequestHeaders ==
    {NoHeader, <<"Bearer">>, <<"Bearer", " ">>}
        \cup UNION {HeaderShapes(t) : t \in IssuedTokens}
        \cup {BearerHeader(t) : t \in GarbageTokens \cup {WronglySigned(t) : t \in IssuedTokens}}

NextMiddleware ==
    \/ \E t \in AuthClockReadings : Tick(t)
    \/ \E d \in SessionRegistrations, salt \in Salts : Register(d, salt)
    \/ \E d \in SessionLogins : Login(d)
    \/ \E t \in IssuedTokens : Logout(t)
    \/ \E id \in UserIdStrings, b \in BOOLEAN : SetActive(id, b)
    \/ \E id \in UserIdStrings : Delete(id)
    \/ \E h \in RequestHeaders : Authenticate(h)

SpecMiddleware == Init /\ [][NextMiddleware]_vars

(***************************************************************************)
(* Roles.  InMemoryUserRepository.assignRole and removeRole, the handlers  *)
(* of the AdminController that call them, and the routes that read the     *)
(* roles of req.user.  The application passes the object {} as the role    *)
(* repository of the AdminController.                                      *)
(***************************************************************************)
\* assignRole and removeRole on a user that is present: nothing is written
assignRole(store, id, roleId) == store
removeRole(store, id, roleId) == store

\* the methods of the object passed as roleRepository
roleRepositoryMethods == {}

\* the value thrown by the call of a method the object does not have
NotAFunction(method) ==
    ErrorOf("TypeError", <<"this.roleRepository.", method, " is not a function">>)

\* AdminController.handleError
adminHandleError(error) ==
    IF error.name = "UserNotFoundError" THEN Failure(404, error.message)
    ELSE IF error.name \in ErrorClasses THEN Failure(400, error.message)
    ELSE Failure(500, <<"Internal server error">>)

\* a response {success: true, message}
Message(status, message) ==
    [status |-> status, data |-> NullUser, error |-> <<>>, message |-> message]

\* InMemoryUserRepository.assignRole and removeRole, called on the store: on
\* a user that is not present they throw
StoreAssignRole(id, roleId) ==
    /\ id \in DOMAIN users
    /\ users' = assignRole(users, id, roleId)
    /\ lastOp' = [op |-> "assignRole", id |-> id, roleId |-> roleId]
    /\ UNCHANGED <<calls, now, revokedTokens, nextId, issued, revokeCalls>>

StoreRemoveRole(id, roleId) ==
    /\ id \in DOMAIN users
    /\ users' = removeRole(users, id, roleId)
    /\ lastOp' = [op |-> "removeRole", id |-> id, roleId |-> roleId]
    /\ UNCHANGED <<calls, now, revokedTokens, nextId, issued, revokeCalls>>

\* AdminController.assignRole, the handler of POST /admin/users/:id/roles/:roleId
AdminAssignRole(id, roleId) ==
    LET response ==
            IF findById(users, id) = NullUser
                THEN adminHandleError(UserNotFoundError(id))
            ELSE IF "findById" \notin roleRepositoryMethods
                THEN adminHandleError(NotAFunction("findById"))
            ELSE Message(200, <<"Role assigned successfully">>)
    IN  /\ users' = IF response.status = 200 THEN assignRole(users, id, roleId) ELSE users
        /\ lastOp' = [op |-> "AdminController.assignRole", id |-> id, roleId |-> roleId,
                      res |-> response]
        /\ UNCHANGED <<calls, now, revokedTokens, nextId, issued, revokeCalls>>

\* AdminController.removeRole, the handler of DELETE /admin/users/:id/roles/:roleId
AdminRemoveRole(id, roleId) ==
    LET response ==
            IF findById(users, id) = NullUser
                THEN adminHandleError(UserNotFoundError(id))
            ELSE Message(200, <<"Role removed successfully">>)
    IN  /\ users' = IF response.status = 200 THEN removeRole(users, id, roleId) ELSE users
        /\ lastOp' = [op |-> "AdminController.removeRole", id |-> id, roleId |-> roleId,
                      res |-> response]
        /\ UNCHANGED <<calls, now, revokedTokens, nextId, issued, revokeCalls>>

\* a route guarded by authenticate and requireRole(roleName)
RoleRouteAfter(token, roleName, authenticated) ==
    /\ lastOp' = [op |-> "roleRoute", token |-> token, roleName |-> roleName,
                  res |-> IF ~authenticated.next
                          THEN Refused(authenticated.status, authenticated.error)
                          ELSE requireRole(authenticated.user, roleName)]
    /\ UNCHANGED <<calls, now, revokedTokens, users, nextId, issued, revokeCalls>>

RoleRoute(authHeader, roleName) ==
    RoleRouteAfter(extractToken(authHeader), roleName,
                   authenticate(authHeader, users, revokedTokens, now))

\* a route guarded by authenticate and requirePermission(resource, action)
PermissionRouteAfter(token, resource, action, authenticated) ==
    /\ lastOp' = [op |-> "permissionRoute", token |-> token,
                  resource |-> resource, action |-> action,
                  res |-> IF ~authenticated.next
                          THEN Refused(authenticated.status, authenticated.error)
                          ELSE requirePermission(authenticated.user, resource, action)]
    /\ UNCHANGED <<calls, now, revokedTokens, users, nextId, issued, revokeCalls>>

PermissionRoute(authHeader, resource, action) ==
    PermissionRouteAfter(extractToken(authHeader), resource, action,
                         authenticate(authHeader, users, revokedTokens, now))

\* the role ids of the requests
RoleIds == {"admin", "user"}

NextRoles ==
    \/ \E d \in AccountRegistrations, salt \in Salts : Register(d, salt)
    \/ \E d \in SessionLogins : Login(d)
    \/ \E d \in AdminCreations, salt \in Salts : AdminCreateUser(d, salt)
    \/ \E id \in UserIdStrings, b \in BOOLEAN : AdminUpdateUser(id, b)
    \/ \E id \in UserIdStrings, d \in ProfileUpdates : StoreUpdateProfile(id, d)
    \/ \E id \in UserIdStrings : Delete(id)
    \/ \E id \in UserIdStrings, r \in RoleIds : StoreAssignRole(id, r)
    \/ \E id \in UserIdStrings, r \in RoleIds : StoreRemoveRole(id, r)
    \/ \E id \in UserIdStrings, r \in RoleIds : AdminAssignRole(id, r)
    \/ \E id \in UserIdStrings, r \in RoleIds : AdminRemoveRole(id, r)
    \/ \E h \in AdminHeaders : AdminRoute(h)
    \/ \E h \in AuthHeaders, n \in RoleNames : RoleRoute(h, n)
    \/ \E h \in AuthHeaders, r \in Resources, a \in PermissionActions :
          PermissionRoute(h, r, a)

SpecRoles == Init /\ [][NextRoles]_vars

(***************************************************************************)
(* PUT /users/password: authenticate, then UserController.updatePassword.  *)
(***************************************************************************)
\* validatePasswordUpdateData: the Error thrown, or NoError; a field that
\* is missing or empty is <<>>
validatePasswordUpdateData(body) ==
    IF body.currentPassword = <<>>
        THEN ErrorOf("Error", <<"Current password is required">>)
    ELSE IF body.newPassword = <<>>
        THEN ErrorOf("Error", <<"New password is required">>)
    ELSE NoError

\* the response of UserController.updatePassword on a request whose req.user
\* is reqUser, and the hash it stores (<<>> when it stores none)
updatePasswordHandler(reqUser, body, salt, store) ==
    LET invalid == validatePasswordUpdateData(body)
        currentUser == findById(store, reqUser.id)
        answer(response, hashed) == [res |-> response, hashedNewPassword |-> hashed]
    IN  IF reqUser = NullUser
            THEN answer(Failure(401, <<"Authentication required">>), <<>>)
        ELSE IF invalid # NoError THEN answer(handleError(invalid), <<>>)
        ELSE IF currentUser = NullUser
            THEN answer(handleError(UserNotFoundError(reqUser.id)), <<>>)
        ELSE IF ~verifyPassword(body.currentPassword, currentUser.hashedPassword)
            THEN answer(Failure(400, <<"Current password is incorrect">>), <<>>)
        ELSE IF ~validatePasswordStrength(body.newPassword).isValid
            THEN answer(Failure(400, <<"Password validation failed">>), <<>>)
        ELSE answer(Message(200, <<"Password updated successfully">>),
                    hashPassword(body.newPassword, salt))

\* updatePassword that also revokes the token of the request
UserUpdatePasswordAfter_RevokingSession(token, body, salt, authenticated) ==
    LET handled == updatePasswordHandler(authenticated.user, body, salt, users)
    IN  IF ~authenticated.next
        THEN /\ lastOp' = [op |-> "updatePassword", token |-> token, body |-> body,
                           res |-> Failure(authenticated.status, authenticated.error)]
             /\ UNCHANGED <<calls, now, revokedTokens, users, nextId, issued, revokeCalls>>
        ELSE /\ users' = IF handled.res.status = 200
                         THEN updatePassword(users, authenticated.user.id,
                                             handled.hashedNewPassword)
                         ELSE users
             /\ revokedTokens' = IF handled.res.status = 200
                                 THEN revokeToken(token, revokedTokens)
                                 ELSE revokedTokens
             /\ lastOp' = [op |-> "updatePassword", token |-> token, body |-> body,
                           res |-> handled.res]
             /\ UNCHANGED <<calls, now, nextId, issued, revokeCalls>>

UserUpdatePasswordAfter(token, body, salt, authenticated) ==
    LET handled == updatePasswordHandler(authenticated.user, body, salt, users)
    IN  IF ~authenticated.next
        THEN /\ lastOp' = [op |-> "updatePassword", token |-> token, body |-> body,
                           res |-> Failure(authenticated.status, authenticated.error)]
             /\ UNCHANGED <<calls, now, revokedTokens, users, nextId, issued, revokeCalls>>
        ELSE /\ users' = IF handled.res.status = 200
                         THEN updatePassword(users, authenticated.user.id,
                                             handled.hashedNewPassword)
                         ELSE users
             /\ lastOp' = [op |-> "updatePassword", token |-> token, body |-> body,
                           res |-> handled.res]
             /\ UNCHANGED <<calls, now, revokedTokens, nextId, issued, revokeCalls>>

UserUpdatePassword(authHeader, body, salt) ==
    UserUpdatePasswordAfter(extractToken(authHeader), body, salt,
                            authenticate(authHeader, users, revokedTokens, now))

\* the bodies of PUT /users/password
PasswordUpdateBodies ==
    [currentPassword : {<<>>, StrongPassword, NewPassword},
     newPassword : {<<>>, StrongPassword, NewPassword, WeakPassword}]

\* logins with the first password and with the second
PasswordLogins ==
    [email : {"test@example.com"}, password : {StrongPassword, NewPassword}]

NextPasswordChange ==
    \/ \E t \in AuthClockReadings : Tick(t)
    \/ \E d \in SessionRegistrations, salt \in Salts : Register(d, salt)
    \/ \E d \in PasswordLogins : Login(d)
    \/ \E t \in IssuedTokens : Logout(t)
    \/ \E id \in UserIdStrings, b \in BOOLEAN : SetActive(id, b)
    \/ \E h \in AuthHeaders : Authenticate(h)
    \/ \E h \in AuthHeaders, body \in PasswordUpdateBodies, salt \in Salts :
          UserUpdatePassword(h, body, salt)

SpecPasswordChange == Init /\ [][NextPasswordChange]_vars

(***************************************************************************)
(* Claims.                                                                *)
(***************************************************************************)
RevokedErrorMessage == "Token has been revoked"
ExpiredErrorMessage == "Token has expired"
SignatureErrorMessage == "Invalid token signature"
MalformedErrorMessages == {"Invalid token format", "Invalid token payload"}

\* C1: once revokeToken(T) has completed, every later validateToken(T) fails
\* with 'Token has been revoked', before T's expiry and after it.
C1_RevokedStaysRevoked ==
    (lastOp.op = "validateToken" /\ lastOp.token \in revokeCalls)
        => lastOp.res = TokenError(RevokedErrorMessage)

\* a revoked issued token is validated after its expiry
C1_Witness ==
    /\ lastOp.op = "validateToken"
    /\ \E r \in issued : /\ r.token = lastOp.token
                         /\ r.token \in revokeCalls
                         /\ now > r.issuedAt + ExpirationMs

\* C2: for every string of the revocation set, expired, wrongly signed or
\* without three segments alike, validateToken reports the revoked error.
C2_RevocationCheckedFirst ==
    /\ \A t \in revokedTokens :
          validateToken(t, revokedTokens, now) = TokenError(RevokedErrorMessage)
    /\ (lastOp.op = "validateToken" /\ lastOp.token \in revokedTokens)
          => (~lastOp.res.ok /\ lastOp.res.error = RevokedErrorMessage)

\* a revoked string without three segments is validated
C2_Witness ==
    /\ lastOp.op = "validateToken"
    /\ lastOp.token \in revokedTokens
    /\ Len(Split(lastOp.token, ".")) # 3

\* C3: a token issued at T0 for a subject and never revoked validates to that
\* subject at every clock reading in [T0, T0 + 24h) and fails as expired at
\* every reading >= T0 + 24h.
C3_ValidExactlyBeforeExpiry ==
    lastOp.op = "validateToken" =>
        \A r \in issued :
            (r.token = lastOp.token /\ r.token \notin revokeCalls) =>
                lastOp.res = IF now < r.issuedAt + ExpirationMs
                             THEN TokenOk(r.userId)
                             ELSE TokenError(ExpiredErrorMessage)

\* C4: with a non-decreasing clock, a token that fails validation as expired
\* or as revoked fails so after every step of the token service and of the
\* authentication service: no step returns it to valid.
Dead(token, revoked, t) ==
    validateToken(token, revoked, t).error \in {ExpiredErrorMessage, RevokedErrorMessage}

C4_NeverReturnsToValid ==
    [][\A t \in IssuedTokens \cup revokedTokens :
          Dead(t, revokedTokens, now) =>
              (now' >= now /\ Dead(t, revokedTokens', now'))]_vars

\* an issued token is validated and fails as expired after another token was
\* issued while the first was already expired
C4_Witness ==
    /\ lastOp.op = "validateToken"
    /\ lastOp.res = TokenError(ExpiredErrorMessage)
    /\ \E r, later \in issued :
          /\ r.token = lastOp.token
          /\ later.issuedAt > r.issuedAt + ExpirationMs
          /\ now > later.issuedAt

\* C5 as stated: validateToken of an issued token with one character of its
\* payload or signature segment changed fails with the invalid-signature or a
\* malformed-token error.
C5_TamperedFailsSignatureOrMalformed ==
    (lastOp.op = "validateToken"
        /\ \E t \in IssuedTokens : lastOp.token \in Tampered(t))
        => (~lastOp.res.ok
            /\ lastOp.res.error \in {SignatureErrorMessage} \cup MalformedErrorMessages)

\* C5 amended: such a string never validates; it fails with the revoked error
\* when the changed string is itself in the revocation set, and with the
\* invalid-signature or a malformed-token error otherwise.  Every
\* single-character change is tried when the token is issued, and the
\* changed strings presented later are checked when they are validated.
TamperedOutcome(token, res) ==
    /\ ~res.ok
    /\ res.userId = <<>>
    /\ IF token \in revokedTokens
       THEN res.error = RevokedErrorMessage
       ELSE res.error \in {SignatureErrorMessage} \cup MalformedErrorMessages

C5_TamperedNeverValidates ==
    /\ lastOp.op = "generateToken" =>
          \A m \in Tampered(lastOp.token) :
              TamperedOutcome(m, validateToken(m, revokedTokens, now))
    /\ (lastOp.op = "validateToken"
          /\ \E t \in IssuedTokens : lastOp.token \in Tampered(t))
          => TamperedOutcome(lastOp.token, lastOp.res)

\* a token whose subject id was changed to another subject's is validated
C5_Witness ==
    /\ lastOp.op = "validateToken"
    /\ lastOp.token \notin revokedTokens
    /\ \E t \in IssuedTokens :
          /\ lastOp.token \in SingleCharChanges(t, PayloadPositions(t))
          /\ Len(Split(lastOp.token, ".")) = 3
          /\ JsonParse(base64UrlDecode(Split(lastOp.token, ".")[2])).ok

\* the subject of a token the token service accepts exists and is active
SubjectActive(token) ==
    LET validated == validateToken(token, revokedTokens, now)
    IN  /\ validated.ok
        /\ validated.userId \in DOMAIN users
        /\ users[validated.userId].isActive

\* C6: DefaultAuthService.validateToken and the authenticate middleware
\* accept a token exactly when the token service accepts it and its subject
\* is, at that moment, a stored user with isActive = true; a token of a
\* deactivated or deleted user is rejected, and accepted again once the
\* user is active again.
C6_AuthenticatedOnlyIfActive ==
    /\ \A t \in AppTokens :
          authenticate(BearerHeader(t), users, revokedTokens, now).next <=> SubjectActive(t)
    /\ lastOp.op = "authValidateToken" =>
          /\ lastOp.res.ok <=> SubjectActive(lastOp.token)
          /\ lastOp.res.ok => lastOp.res.user.id = validateToken(lastOp.token, revokedTokens, now).userId
    /\ lastOp.op = "authenticate" =>
          /\ lastOp.res.next <=> SubjectActive(lastOp.token)
          /\ lastOp.res.next => lastOp.res.user.id = validateToken(lastOp.token, revokedTokens, now).userId
          /\ ~lastOp.res.next => lastOp.res.status \in {401, 403}

\* the valid token of a deactivated user is presented to the service
C6_Witness ==
    /\ lastOp.op = "authValidateToken"
    /\ validateToken(lastOp.token, revokedTokens, now).ok
    /\ \E id \in DOMAIN users : /\ id = validateToken(lastOp.token, revokedTokens, now).userId
                                /\ ~users[id].isActive
    /\ lastOp.res.error = DeactivatedError

\* the login data name no stored user, or a stored user and another password
UnknownEmail(store, loginData) == findByEmail(store, loginData.email) = NullUser
WrongPassword(store, loginData) ==
    /\ ~UnknownEmail(store, loginData)
    /\ ~verifyPassword(loginData.password, findByEmail(store, loginData.email).hashedPassword)

\* C7: login with an email of no user and login with the email of a user
\* and a wrong password are rejected with one and the same error, name
\* InvalidCredentialsError and message 'Invalid email or password'.
C7_SameErrorForUnknownAndWrong ==
    [][(lastOp'.op = "login"
          /\ (UnknownEmail(users, lastOp'.data) \/ WrongPassword(users, lastOp'.data)))
        => lastOp'.res = Rejected(InvalidCredentialsError)]_vars

\* a login with the email of a stored user and a wrong password was rejected
C7_Witness ==
    /\ lastOp.op = "login"
    /\ WrongPassword(users, lastOp.data)
    /\ lastOp.res.error.name = "InvalidCredentialsError"

\* the login data are the email and the password of a user with isActive false
InactiveWithCredentials(store, loginData) ==
    /\ ~UnknownEmail(store, loginData)
    /\ ~WrongPassword(store, loginData)
    /\ ~findByEmail(store, loginData.email).isActive

\* C8: login with the email and password of a deactivated user is rejected
\* with 'User account is deactivated', issues no token and leaves the store,
\* lastLoginAt included, as it was.
C8_InactiveLoginRejected ==
    [][(lastOp'.op = "login" /\ InactiveWithCredentials(users, lastOp'.data))
        => /\ lastOp'.res = Rejected(DeactivatedError)
           /\ lastOp'.res.token = <<>>
           /\ users' = users
           /\ issued' = issued]_vars

\* a user who logged in earlier was deactivated and is refused; the time of
\* the earlier login is still the recorded one
C8_Witness ==
    /\ lastOp.op = "login"
    /\ lastOp.res = Rejected(DeactivatedError)
    /\ InactiveWithCredentials(users, lastOp.data)
    /\ LET user == findByEmail(users, lastOp.data.email)
       IN  user.profile.lastLoginAt # NoDate /\ user.profile.lastLoginAt < now

\* C9: of two register calls with one email and two usernames that overlap,
\* exactly one is fulfilled, and one stored user carries the email.
C9_ConcurrentRegisterOneWins ==
    \A a, b \in CallIds :
        (/\ a # b
         /\ calls[a].pc \in {"fulfilled", "rejected"}
         /\ calls[b].pc \in {"fulfilled", "rejected"}
         /\ calls[b].overlapped
         /\ calls[a].data.email = calls[b].data.email
         /\ calls[a].data.username # calls[b].data.username)
        => /\ Cardinality({c \in {a, b} : calls[c].pc = "fulfilled"}) = 1
           /\ Cardinality({id \in DOMAIN users : users[id].email = calls[a].data.email}) = 1

\* the registration data collide with a stored user
EmailTaken(store, userData) == findByEmail(store, userData.email) # NullUser
UsernameTaken(store, userData) == findByUsername(store, userData.username) # NullUser

NothingRegistered ==
    /\ users' = users
    /\ nextId' = nextId
    /\ issued' = issued
    /\ ~lastOp'.res.ok
    /\ lastOp'.res.token = <<>>

UniqueEmailsAndUsernames ==
    \A a, b \in DOMAIN users :
        a # b => /\ users[a].email # users[b].email
                 /\ users[a].username # users[b].username

\* C10 as stated: register with the email or the username of a stored user
\* fails with UserAlreadyExistsError, creates no user and issues no token.
C10_DuplicateFailsAlreadyExists ==
    [][(lastOp'.op = "register"
          /\ (EmailTaken(users, lastOp'.data) \/ UsernameTaken(users, lastOp'.data)))
        => /\ lastOp'.res.error.name = "UserAlreadyExistsError"
           /\ NothingRegistered]_vars

\* C10 amended: such a register call fails, with the password validation
\* error when the password breaks the strength rules and with
\* UserAlreadyExistsError (for the email first) otherwise; it creates no user
\* and issues no token, and no two stored users share an email or a username.
C10_DuplicateRejected ==
    /\ [][(lastOp'.op = "register"
             /\ (EmailTaken(users, lastOp'.data) \/ UsernameTaken(users, lastOp'.data)))
           => /\ NothingRegistered
              /\ lastOp'.res.error =
                   IF ~validatePasswordStrength(lastOp'.data.password).isValid
                   THEN PasswordValidationError(
                            validatePasswordStrength(lastOp'.data.password).errors)
                   ELSE IF EmailTaken(users, lastOp'.data)
                   THEN UserAlreadyExistsError("email", lastOp'.data.email)
                   ELSE UserAlreadyExistsError("username", lastOp'.data.username)]_vars
    /\ []UniqueEmailsAndUsernames

\* a register call with a fresh email and the username of a stored user was
\* rejected
C10_Witness ==
    /\ lastOp.op = "register"
    /\ lastOp.res.error = UserAlreadyExistsError("username", lastOp.data.username)
    /\ ~EmailTaken(users, lastOp.data)
    /\ Cardinality(DOMAIN users) >= 1

\* the identity of a user or of a user response
Identity(user) == [id |-> user.id, email |-> user.email, username |-> user.username]

\* both checks of a token hand out the identity of this stored user
AuthenticatesAs(token, user) ==
    /\ user.id \in DOMAIN users
    /\ Identity(users[user.id]) = Identity(user)
    /\ validateToken(token, revokedTokens, now) = TokenOk(user.id)
    /\ SubjectError(users, user.id) = NoError
    /\ Identity(toUserResponse(findById(users, user.id))) = Identity(user)
    /\ LET passed == authenticate(BearerHeader(token), users, revokedTokens, now)
       IN  passed.next /\ Identity(passed.user) = Identity(user)

\* C11: when register(A) has succeeded, login with A's email and password
\* succeeds; the token of the registration and the token of the login both
\* authenticate, while valid, as the user with A's id, email and username.
C11_RegisterLoginAuthenticate ==
    /\ (lastOp.op = "register" /\ lastOp.res.ok) =>
          /\ lastOp.res.user.email = lastOp.data.email
          /\ lastOp.res.user.username = lastOp.data.username
          /\ LoginError(users, [email |-> lastOp.data.email,
                                password |-> lastOp.data.password]) = NoError
          /\ AuthenticatesAs(lastOp.res.token, lastOp.res.user)
    /\ (lastOp.op = "login" /\ lastOp.res.ok) =>
          /\ lastOp.res.user.email = lastOp.data.email
          /\ lastOp.res.token # <<>>
          /\ AuthenticatesAs(lastOp.res.token, lastOp.res.user)
    /\ (lastOp.op = "login"
          /\ \E id \in DOMAIN users :
                /\ users[id].email = lastOp.data.email
                /\ users[id].isActive
                /\ verifyPassword(lastOp.data.password, users[id].hashedPassword))
          => lastOp.res.ok
    /\ (lastOp.op \in {"authValidateToken", "authenticate"}
          /\ (lastOp.op = "authenticate" => lastOp.res.next)
          /\ (lastOp.op = "authValidateToken" => lastOp.res.ok))
          => \A r \in issued :
                r.token = lastOp.token =>
                    Identity(lastOp.res.user) = Identity(users[r.userId])

\* the token of a login made after the registration authenticates
C11_Witness ==
    /\ lastOp.op = "authenticate"
    /\ lastOp.res.next
    /\ \E r \in issued :
          /\ r.token = lastOp.token
          /\ r.issuedAt > 0
          /\ users[r.userId].profile.lastLoginAt = r.issuedAt
          /\ Identity(lastOp.res.user) = Identity(users[r.userId])

\* C12: refreshToken leaves the revocation set as it was, and after a
\* successful refresh the token it was given still validates, to the user
\* the new token was issued to.
C12_RefreshKeepsOldToken ==
    [][lastOp'.op = "refreshToken" =>
          /\ revokedTokens' = revokedTokens
          /\ lastOp'.res.ok =>
                validateToken(lastOp'.token, revokedTokens', now')
                    = TokenOk(lastOp'.res.user.id)]_vars

\* after a refresh two different tokens of one user are valid
C12_Witness ==
    /\ lastOp.op = "refreshToken"
    /\ lastOp.res.ok
    /\ lastOp.res.token # lastOp.token
    /\ validateToken(lastOp.token, revokedTokens, now) = TokenOk(lastOp.res.user.id)
    /\ validateToken(lastOp.res.token, revokedTokens, now) = TokenOk(lastOp.res.user.id)

\* C13: a successful refreshToken(T) returns a token string other than T.
C13_RefreshReturnsNewToken ==
    (lastOp.op = "refreshToken" /\ lastOp.res.ok) => lastOp.res.token # lastOp.token

\* the step issued no token and wrote neither the store nor the revocation set
NoTokenIssued ==
    /\ issued' = issued
    /\ users' = users
    /\ revokedTokens' = revokedTokens
    /\ ~lastOp'.res.ok
    /\ lastOp'.res.token = <<>>

\* C14: refreshToken(T) is rejected and issues nothing when validateToken
\* rejects T (revoked, expired, malformed, wrongly signed), with the error
\* of validateToken, when the subject of T is not in the store
\* (UserNotFoundError) and when it is inactive ('User account is
\* deactivated').
C14_RefreshRejected ==
    [][lastOp'.op = "refreshToken" =>
          LET validated == validateToken(lastOp'.token, revokedTokens, now)
          IN  /\ ~validated.ok =>
                    /\ validated.error \in {RevokedErrorMessage, ExpiredErrorMessage,
                                            SignatureErrorMessage} \cup MalformedErrorMessages
                    /\ lastOp'.res = Rejected(ErrorOf("Error", <<validated.error>>))
                    /\ NoTokenIssued
              /\ (validated.ok /\ validated.userId \notin DOMAIN users) =>
                    /\ lastOp'.res = Rejected(UserNotFoundError(validated.userId))
                    /\ NoTokenIssued
              /\ (validated.ok /\ validated.userId \in DOMAIN users
                               /\ ~users[validated.userId].isActive) =>
                    /\ lastOp'.res = Rejected(DeactivatedError)
                    /\ NoTokenIssued]_vars

\* the valid token of a deleted user is refused
C14_Witness ==
    /\ lastOp.op = "refreshToken"
    /\ validateToken(lastOp.token, revokedTokens, now).ok
    /\ lastOp.res.error.name = "UserNotFoundError"
    /\ nextId > 1
    /\ validateToken(lastOp.token, revokedTokens, now).userId \notin DOMAIN users

\* decodeToken cannot take the string apart
Unparsable(token) == decodeToken(token).error \in MalformedErrorMessages

\* C15 as stated: logout adds the presented string to the revocation set
\* without validating it, and fails exactly for a structurally unparsable
\* string.
C15_LogoutFailsOnlyUnparsable ==
    lastOp.op = "logout" =>
        IF Unparsable(lastOp.token)
        THEN ~lastOp.ok
        ELSE lastOp.ok /\ lastOp.token \in revokedTokens

\* C15 amended: logout never fails, not even for a structurally unparsable
\* string; it adds whatever string it is given to the revocation set and
\* changes nothing else.
C15_LogoutNeverFails ==
    /\ [](lastOp.op = "logout" => (lastOp.ok /\ lastOp.token \in revokedTokens))
    /\ [][lastOp'.op = "logout" =>
            /\ revokedTokens' = revokedTokens \cup {lastOp'.token}
            /\ users' = users
            /\ issued' = issued]_vars

\* a string without three segments was logged out and is now revoked
C15_Witness ==
    /\ lastOp.op = "logout"
    /\ lastOp.ok
    /\ Unparsable(lastOp.token)
    /\ lastOp.token \in revokedTokens
    /\ validateToken(lastOp.token, revokedTokens, now) = TokenError(RevokedErrorMessage)

\* C16: the expiresAt returned with a token is the expiresAt of the payload
\* of that token, the time of issue plus 24 hours.
C16_ExpiresAtIsPayloadExpiry ==
    \A c \in CallIds :
        calls[c].pc = "fulfilled" =>
            LET decoded == decodeToken(calls[c].res.token)
            IN  /\ decoded.error = ""
                /\ calls[c].res.expiresAt = decoded.payload.expiresAt
                /\ calls[c].res.expiresAt = decoded.payload.issuedAt + ExpirationMs

\* C17: requirePermission passes a request on exactly when some role of
\* req.user contains one single permission whose resource and whose action
\* both equal the required ones; a resource matched in one permission and an
\* action matched in another grant nothing; an authenticated request without
\* such a permission is answered 403 and next is not called.
Grants(user, resource, action) ==
    \E role \in Range(user.roles) :
        Permission(resource, action) \in Range(role.permissions)

CrossMatchOnly(user, resource, action) ==
    /\ ~Grants(user, resource, action)
    /\ \E role \in Range(user.roles) : \E p \in Range(role.permissions) :
          p.resource = resource
    /\ \E role \in Range(user.roles) : \E p \in Range(role.permissions) :
          p.action = action

C17_PermissionNeedsOneMatchingPermission ==
    lastOp.op = "requirePermission" =>
        /\ lastOp.res.next <=>
              (lastOp.user # NullUser /\ Grants(lastOp.user, lastOp.resource, lastOp.action))
        /\ lastOp.user # NullUser =>
              (userHasPermission(lastOp.user, lastOp.resource, lastOp.action)
                  <=> Grants(lastOp.user, lastOp.resource, lastOp.action))
        /\ (lastOp.user # NullUser /\ ~Grants(lastOp.user, lastOp.resource, lastOp.action)) =>
              (lastOp.res.status = 403 /\ ~lastOp.res.next)

\* a request whose roles hold the resource and the action in two different
\* permissions was answered 403
C17_Witness ==
    /\ lastOp.op = "requirePermission"
    /\ lastOp.user # NullUser
    /\ CrossMatchOnly(lastOp.user, lastOp.resource, lastOp.action)
    /\ lastOp.res.status = 403
    /\ ~lastOp.res.next

\* C18: requireRole passes a request on exactly when one of the roles of
\* req.user has a name equal to the required name, letter case included; the
\* handler of an /admin route runs only when the presented token validates
\* and its subject is in the store, active and holds the role 'admin';
\* every other request is answered 401 or 403 and the handler is not invoked.
HoldsRole(user, roleName) == \E role \in Range(user.roles) : role.name = roleName

AdminOf(token) ==
    LET validated == validateToken(token, revokedTokens, now)
    IN  /\ token # <<>>
        /\ validated.ok
        /\ validated.userId \in DOMAIN users
        /\ users[validated.userId].isActive
        /\ HoldsRole(users[validated.userId], "admin")

C18_AdminOnlyForRoleAdmin ==
    /\ lastOp.op = "requireRole" =>
          /\ lastOp.res.next <=>
                (lastOp.user # NullUser /\ HoldsRole(lastOp.user, lastOp.roleName))
          /\ (lastOp.user # NullUser /\ ~HoldsRole(lastOp.user, lastOp.roleName)) =>
                (lastOp.res.status = 403 /\ ~lastOp.res.next)
    /\ lastOp.op = "adminRoute" =>
          /\ lastOp.res.handler => AdminOf(lastOp.token)
          /\ ~AdminOf(lastOp.token) =>
                (lastOp.res.status \in {401, 403} /\ ~lastOp.res.handler)

\* an /admin route refused, with 403, the valid token of an active user who
\* does not hold the role 'admin'
C18_Witness ==
    /\ lastOp.op = "adminRoute"
    /\ validateToken(lastOp.token, revokedTokens, now).ok
    /\ validateToken(lastOp.token, revokedTokens, now).userId \in DOMAIN users
    /\ users[validateToken(lastOp.token, revokedTokens, now).userId].isActive
    /\ lastOp.res.status = 403
    /\ ~lastOp.res.handler

\* C19: no user handed to a caller carries the hashed password or the
\* plaintext password: the user of a result of register, login, refreshToken
\* and validateToken, req.user as authenticate sets it, and the data of the
\* profile and admin responses.
HandedOut ==
    IF lastOp.op \in {"register", "login", "refreshToken", "authValidateToken", "authenticate"}
        THEN {lastOp.res.user}
    ELSE IF lastOp.op \in {"getProfile", "updateProfile", "getUserById", "createUser",
                           "updateUser"}
        THEN {lastOp.res.data}
    ELSE IF lastOp.op = "getAllUsers" THEN Range(lastOp.res.data)
    ELSE {}

Secrets == {"hashedPassword", "password"}

NoSecret(user) ==
    /\ DOMAIN user \cap Secrets = {}
    /\ "profile" \in DOMAIN user => DOMAIN user.profile \cap Secrets = {}

C19_NoPasswordHandedOut == \A user \in HandedOut : NoSecret(user)

\* GET /users/profile answered with the user of the token, whose stored
\* record holds the hash of the password
C19_Witness ==
    /\ lastOp.op = "getProfile"
    /\ lastOp.res.status = 200
    /\ lastOp.res.data.id \in DOMAIN users
    /\ users[lastOp.res.data.id].hashedPassword # <<>>
    /\ NoSecret(lastOp.res.data)

\* C20: login changes state only on success.  A successful login sets the
\* lastLoginAt of the user in the store and returns a token that validates
\* to the id of that user; a failed login leaves the store and the
\* revocation set as they were, issues nothing and returns no token.
C20_LoginChangesStateOnlyOnSuccess ==
    [][lastOp'.op = "login" =>
          IF lastOp'.res.ok
          THEN /\ lastOp'.res.user.id \in DOMAIN users'
               /\ users'[lastOp'.res.user.id].profile.lastLoginAt = now'
               /\ revokedTokens' = revokedTokens
               /\ validateToken(lastOp'.res.token, revokedTokens', now')
                      = TokenOk(lastOp'.res.user.id)
          ELSE /\ users' = users
               /\ revokedTokens' = revokedTokens
               /\ issued' = issued
               /\ lastOp'.res.token = <<>>]_vars

\* C21: validatePasswordStrength evaluates every rule: the errors hold one
\* message for each violated rule (shorter than 8, longer than 128, no
\* uppercase letter, no lowercase letter, no digit, no special character, a
\* run of three or more identical characters, a denylisted word in any
\* letter case) and none for a satisfied rule, and isValid is true exactly
\* when no rule is violated.
RuleMessages ==
    <<"Password must be at least 8 characters long",
      "Password must be no more than 128 characters long",
      "Password must contain at least one uppercase letter",
      "Password must contain at least one lowercase letter",
      "Password must contain at least one number",
      "Password must contain at least one special character",
      "Password cannot contain more than 2 consecutive identical characters",
      "Password cannot contain common words or patterns">>

RunOfThree(password) ==
    \E i \in 1..(Len(password) - 2) :
        password[i] = password[i + 1] /\ password[i + 1] = password[i + 2]

Denylisted(password) ==
    \E k \in 1..Len(commonPasswords) : \E i \in 1..Len(password) :
        /\ i + Len(commonPasswords[k]) - 1 <= Len(password)
        /\ \A j \in 1..Len(commonPasswords[k]) :
              toLowerCase(<<password[i + j - 1]>>) = <<commonPasswords[k][j]>>

RuleViolated(rule, password) ==
    CASE rule = 1 -> Len(password) < 8
      [] rule = 2 -> Len(password) > 128
      [] rule = 3 -> ~(\E i \in 1..Len(password) : password[i] \in Range(UpperChars))
      [] rule = 4 -> ~(\E i \in 1..Len(password) : password[i] \in Range(LowerChars))
      [] rule = 5 -> ~(\E i \in 1..Len(password) : password[i] \in Range(DigitChar))
      [] rule = 6 -> ~(\E i \in 1..Len(password) : password[i] \in SpecialChars)
      [] rule = 7 -> RunOfThree(password)
      [] rule = 8 -> Denylisted(password)

Occurrences(message, errors) == Cardinality({i \in 1..Len(errors) : errors[i] = message})

C21_EveryViolatedRuleReported ==
    lastOp.op = "validatePasswordStrength" =>
        /\ \A rule \in 1..Len(RuleMessages) :
              Occurrences(RuleMessages[rule], lastOp.res.errors)
                  = (IF RuleViolated(rule, lastOp.password) THEN 1 ELSE 0)
        /\ Len(lastOp.res.errors)
              = Cardinality({rule \in 1..Len(RuleMessages) :
                                RuleViolated(rule, lastOp.password)})
        /\ lastOp.res.isValid <=>
              (\A rule \in 1..Len(RuleMessages) : ~RuleViolated(rule, lastOp.password))

\* C22: every password the test suite treats as strong passes
\* validatePasswordStrength with isValid true and no errors
\* ('StrongPassword123!', 'TestPassword123!', and 'TestPassword123' followed
\* by one of the special characters), and register with 'TestPassword123!',
\* a fresh email and a fresh username is not rejected for its password.
TreatedAsStrong == {strongPassword, mockPassword} \cup SpecialCharacterPasswords

RejectedForPassword(res) ==
    /\ ~res.ok
    /\ res.error = PasswordValidationError(validatePasswordStrength(mockPassword).errors)

C22_TestSuitePasswordsAccepted ==
    /\ (lastOp.op = "validatePasswordStrength" /\ lastOp.password \in TreatedAsStrong) =>
           (lastOp.res.isValid /\ lastOp.res.errors = <<>>)
    /\ (lastOp.op = "register" /\ lastOp.data = mockUserRegistrationData
            /\ findByEmail(users, lastOp.data.email) = NullUser
            /\ findByUsername(users, lastOp.data.username) = NullUser) =>
           ~RejectedForPassword(lastOp.res)

\* C23: revokeToken is idempotent and never fails: revoking a token that is
\* already in the revocation set leaves the set as it was, and with it the
\* outcome of validateToken for every token, at every later clock reading.
C23_RevokeIdempotent ==
    [][(lastOp'.op = "revokeToken" /\ lastOp'.token \in revokedTokens) =>
          /\ revokedTokens' = revokedTokens
          /\ \A token \in IssuedTokens \cup revokedTokens, t \in ClockReadings :
                validateToken(token, revokedTokens', t)
                    = validateToken(token, revokedTokens, t)]_vars

\* an issued token was revoked a second time and is still in the set
C23_Witness ==
    /\ lastOp.op = "revokeToken"
    /\ lastOp.repeated
    /\ lastOp.token \in IssuedTokens
    /\ lastOp.token \in revokedTokens

\* C24: each write of the store is one atomic update.  Under every
\* interleaving of register, login, setActive, updateProfile,
\* updatePassword, updateLastLogin and delete, a step writes the fields of
\* one operation on one user and carries every other field over from the
\* store as it is, so no completed update to another field is lost; and at
\* every await at which a call can be abandoned the store holds whole user
\* records only and the revocation set whole presented strings only.
FieldsOf(user) ==
    [email |-> user.email, username |-> user.username,
     hashedPassword |-> user.hashedPassword, roles |-> user.roles,
     isActive |-> user.isActive, firstName |-> user.profile.firstName,
     lastName |-> user.profile.lastName, lastLoginAt |-> user.profile.lastLoginAt]

ChangedFields(before, after) ==
    {f \in DOMAIN FieldsOf(before) : FieldsOf(before)[f] # FieldsOf(after)[f]}

\* what setActive, updatePassword, updateLastLogin and updateProfile write
WriteSets == {{"isActive"}, {"hashedPassword"}, {"lastLoginAt"}, {"firstName", "lastName"}}

WholeUser(id) ==
    /\ DOMAIN users[id] = DOMAIN NewUser(1, NoData, <<>>)
    /\ DOMAIN users[id].profile = DOMAIN NewUser(1, NoData, <<>>).profile
    /\ users[id].id = id
    /\ users[id].email # ""
    /\ users[id].username # ""
    /\ Len(Split(users[id].hashedPassword, ":")) = 2
    /\ users[id].isActive \in BOOLEAN

WholeStore ==
    /\ \A id \in DOMAIN users : WholeUser(id)
    /\ revokedTokens \subseteq revokeCalls

OneWritePerStep ==
    /\ Cardinality({id \in DOMAIN users \cap DOMAIN users' : users[id] # users'[id]}) <= 1
    /\ \A id \in DOMAIN users \cap DOMAIN users' :
          \E written \in WriteSets : ChangedFields(users[id], users'[id]) \subseteq written

C24_StoreStepsAtomic == []WholeStore /\ [][OneWritePerStep]_vars

\* a login that read its user before the profile, the password and the
\* active flag were updated has completed, and the store holds its
\* lastLoginAt together with the three updates
C24_Witness ==
    \E c \in CallIds :
        /\ calls[c].pc = "fulfilled"
        /\ "username" \notin DOMAIN calls[c].data
        /\ calls[c].user.id \in DOMAIN users
        /\ calls[c].user.profile.firstName = "John"
        /\ calls[c].user.isActive
        /\ users[calls[c].user.id].profile.firstName = "Jane"
        /\ ~users[calls[c].user.id].isActive
        /\ users[calls[c].user.id].hashedPassword # calls[c].user.hashedPassword
        /\ users[calls[c].user.id].profile.lastLoginAt = now

\* C25: for a token that is not revoked, validateToken reports the first
\* failure in the order: not three segments (malformed format), signature
\* mismatch (invalid signature), undecodable payload (malformed payload),
\* elapsed expiry (expired).  An expired token with a wrong signature is
\* reported as invalid signature.
SegmentCount(token) == Len(Split(token, "."))

SignatureMatches(token) ==
    LET parts == Split(token, ".")
    IN  parts[3] = createSignature(parts[1] \o <<".">> \o parts[2])

PayloadOf(token) == JsonParse(base64UrlDecode(Split(token, ".")[2]))

FirstFailure(token, t) ==
    IF SegmentCount(token) # 3 THEN "Invalid token format"
    ELSE IF ~SignatureMatches(token) THEN "Invalid token signature"
    ELSE IF ~PayloadOf(token).ok THEN "Invalid token payload"
    ELSE IF t > PayloadOf(token).payload.expiresAt THEN "Token has expired"
    ELSE ""

\* an issued token past its expiry with the last character of its signature
\* changed
ExpiredWronglySigned(token) ==
    \E r \in issued :
        /\ now > r.issuedAt + ExpirationMs
        /\ token = [r.token EXCEPT ![Len(r.token)] = "X"]

C25_FirstFailureReported ==
    (lastOp.op = "validateToken" /\ lastOp.token \notin revokedTokens) =>
        /\ lastOp.res.error = FirstFailure(lastOp.token, now)
        /\ lastOp.res.ok <=> FirstFailure(lastOp.token, now) = ""
        /\ ExpiredWronglySigned(lastOp.token)
              => lastOp.res.error = "Invalid token signature"

\* an expired token with a wrong signature is validated
C25_Witness ==
    /\ lastOp.op = "validateToken"
    /\ lastOp.token \notin revokedTokens
    /\ ExpiredWronglySigned(lastOp.token)

\* each of the four failures is reported, and a wrongly signed token with an
\* undecodable payload is reported as wrongly signed
C25_EachFailure(message) ==
    /\ lastOp.op = "validateToken"
    /\ lastOp.token \notin revokedTokens
    /\ lastOp.res.error = message

C25_WitnessFormat == C25_EachFailure("Invalid token format")
C25_WitnessPayload == C25_EachFailure("Invalid token payload")
C25_WitnessExpired == C25_EachFailure("Token has expired")
C25_WitnessSignatureOverPayload ==
    /\ C25_EachFailure("Invalid token signature")
    /\ SegmentCount(lastOp.token) = 3
    /\ ~PayloadOf(lastOp.token).ok

C27_LoggedOutTokenRejected ==
    (lastOp.op = "authenticate" /\ lastOp.token \in revokeCalls) =>
        /\ ~lastOp.res.next
        /\ lastOp.res.user = NullUser
        /\ lastOp.res.status = 401
        /\ lastOp.res.error = <<RevokedErrorMessage>>

\* a protected request carries a token that a login issued to an active
\* user and a logout revoked, before the token expires
C27_Witness ==
    /\ lastOp.op = "authenticate"
    /\ lastOp.token \in revokeCalls
    /\ \E r \in issued :
          /\ r.token = lastOp.token
          /\ now < r.issuedAt + ExpirationMs
          /\ r.userId \in DOMAIN users
          /\ users[r.userId].isActive

\* C28: UserController answers every failure of the service with one
\* response: UserAlreadyExistsError with 409, InvalidCredentialsError with
\* 401, UserNotFoundError with 404, any other Error with 400 and its message
\* (the revoked, expired, malformed and invalid-signature rejections of a
\* refresh and the rejection of a deactivated account among them), and a
\* thrown value that is not an Error with 500.
ControllerOps ==
    {"UserController.register", "UserController.login",
     "UserController.refreshToken", "UserController.logout"}

ClaimedStatus(thrown) ==
    CASE thrown.name = "UserAlreadyExistsError" -> 409
      [] thrown.name = "InvalidCredentialsError" -> 401
      [] thrown.name = "UserNotFoundError" -> 404
      [] thrown.name \in ErrorClasses
            \ {"UserAlreadyExistsError", "InvalidCredentialsError", "UserNotFoundError"} -> 400
      [] OTHER -> 500

TokenRejections ==
    {<<RevokedErrorMessage>>, <<ExpiredErrorMessage>>, <<SignatureErrorMessage>>}
        \cup {<<x>> : x \in MalformedErrorMessages}

C28_EveryFailureMapped ==
    (lastOp.op \in ControllerOps /\ lastOp.thrown # NoError) =>
        /\ lastOp.res.status = ClaimedStatus(lastOp.thrown)
        /\ lastOp.res.data = NullUser
        /\ lastOp.res.status # 500 => lastOp.res.error = lastOp.thrown.message
        /\ (lastOp.thrown.message \in TokenRejections \cup {DeactivatedError.message}
              /\ lastOp.thrown.name = "Error")
              => lastOp.res = Failure(400, lastOp.thrown.message)

C28_Answered(op, status, name) ==
    /\ lastOp.op = op
    /\ lastOp.thrown.name = name
    /\ lastOp.res.status = status

\* a refresh of a revoked token is answered 400 with the message of the error
C28_Witness ==
    /\ C28_Answered("UserController.refreshToken", 400, "Error")
    /\ lastOp.thrown.message = <<RevokedErrorMessage>>
    /\ lastOp.res.error = <<RevokedErrorMessage>>

C28_Witness409 == C28_Answered("UserController.register", 409, "UserAlreadyExistsError")
C28_Witness401 == C28_Answered("UserController.login", 401, "InvalidCredentialsError")
C28_Witness404 == C28_Answered("UserController.refreshToken", 404, "UserNotFoundError")
C28_Witness500 == C28_Answered("UserController.register", 500, "string")
C28_WitnessDeactivated ==
    /\ C28_Answered("UserController.login", 400, "Error")
    /\ lastOp.thrown = DeactivatedError
C28_WitnessExpired ==
    /\ C28_Answered("UserController.refreshToken", 400, "Error")
    /\ lastOp.thrown.message = <<ExpiredErrorMessage>>
C28_WitnessSignature ==
    /\ C28_Answered("UserController.refreshToken", 400, "Error")
    /\ lastOp.thrown.message = <<SignatureErrorMessage>>
C28_WitnessMalformed ==
    /\ C28_Answered("UserController.refreshToken", 400, "Error")
    /\ lastOp.thrown.message = <<"Invalid token format">>

\* C29: the authenticate middleware ends every request in exactly one of two
\* ways: it calls next() with req.user set, or it sends a response without
\* calling next(): 401 when the Authorization header is absent or is not
\* exactly 'Bearer <token>', when the validation of the token fails or when
\* its subject is not in the store, 403 when the subject is inactive.
\* req.user is never set on a rejected request.
ExactlyBearerToken(header) ==
    /\ Len(header) >= 3
    /\ header[1] = "Bearer"
    /\ header[2] = " "
    /\ \A i \in 3..Len(header) : header[i] # " "

PassedOnWithUser(res) == res.next /\ res.status = 0 /\ res.user # NullUser
RespondedOnly(res, status) == ~res.next /\ res.status = status /\ res.user = NullUser

C29_OneOfTwoEndings ==
    lastOp.op = "authenticate" =>
        LET res == lastOp.res
            token == SubSeq(lastOp.header, 3, Len(lastOp.header))
            validated == validateToken(token, revokedTokens, now)
        IN  /\ PassedOnWithUser(res) \/ RespondedOnly(res, 401) \/ RespondedOnly(res, 403)
            /\ IF ~ExactlyBearerToken(lastOp.header) THEN RespondedOnly(res, 401)
               ELSE IF ~validated.ok THEN RespondedOnly(res, 401)
               ELSE IF validated.userId \notin DOMAIN users THEN RespondedOnly(res, 401)
               ELSE IF ~users[validated.userId].isActive THEN RespondedOnly(res, 403)
               ELSE /\ PassedOnWithUser(res)
                    /\ res.user.id = validated.userId

\* a valid token of an active user under another scheme is answered 401
C29_Witness ==
    /\ lastOp.op = "authenticate"
    /\ Len(lastOp.header) >= 3
    /\ lastOp.header[1] = "Basic"
    /\ SubjectActive(SubSeq(lastOp.header, 3, Len(lastOp.header)))
    /\ RespondedOnly(lastOp.res, 401)

C29_WitnessAbsent ==
    lastOp.op = "authenticate" /\ lastOp.header = NoHeader /\ RespondedOnly(lastOp.res, 401)
C29_WitnessEmptyToken ==
    /\ lastOp.op = "authenticate"
    /\ lastOp.header = <<"Bearer", " ">>
    /\ RespondedOnly(lastOp.res, 401)
C29_WitnessThirdPart ==
    /\ lastOp.op = "authenticate"
    /\ Len(Split(lastOp.header, " ")) = 3
    /\ SubjectActive(Split(lastOp.header, " ")[2])
    /\ RespondedOnly(lastOp.res, 401)
C29_WitnessMissingSubject ==
    /\ lastOp.op = "authenticate"
    /\ ExactlyBearerToken(lastOp.header)
    /\ validateToken(lastOp.token, revokedTokens, now).ok
    /\ validateToken(lastOp.token, revokedTokens, now).userId \notin DOMAIN users
    /\ RespondedOnly(lastOp.res, 401)
C29_WitnessInactive ==
    lastOp.op = "authenticate" /\ RespondedOnly(lastOp.res, 403)
C29_WitnessPassedOn ==
    lastOp.op = "authenticate" /\ PassedOnWithUser(lastOp.res)

\* C30: login checks in the order unknown email, wrong password, inactive
\* account: a login to an inactive account with a wrong password fails with
\* InvalidCredentialsError, and only the right password of an inactive
\* account is told that the account is deactivated.
C30_LoginCheckOrder ==
    lastOp.op = "login" =>
        LET user == findByEmail(users, lastOp.data.email)
        IN  IF user = NullUser
            THEN lastOp.res = Rejected(InvalidCredentialsError)
            ELSE IF ~verifyPassword(lastOp.data.password, user.hashedPassword)
            THEN lastOp.res = Rejected(InvalidCredentialsError)
            ELSE IF ~user.isActive
            THEN lastOp.res = Rejected(DeactivatedError)
            ELSE lastOp.res.ok

\* a login to an inactive account with a wrong password
C30_Witness ==
    /\ lastOp.op = "login"
    /\ findByEmail(users, lastOp.data.email) # NullUser
    /\ ~findByEmail(users, lastOp.data.email).isActive
    /\ ~verifyPassword(lastOp.data.password,
                       findByEmail(users, lastOp.data.email).hashedPassword)
    /\ lastOp.res = Rejected(InvalidCredentialsError)

\* C31: login and refreshToken never return a token for a user who is
\* inactive or absent from the store at the moment the token is issued, also
\* when setActive(id, false) or delete(id) runs between their lookup of the
\* user and the issue of the token.
IssuesToken(c) ==
    /\ calls'[c].pc \in {"login.generateToken", "refresh.generateToken"}
    /\ calls[c].pc # calls'[c].pc

C31_TokenOnlyForActiveUser ==
    [][\A c \in CallIds :
          IssuesToken(c) =>
              /\ calls'[c].user.id \in DOMAIN users
              /\ users[calls'[c].user.id].isActive]_vars

\* C32: refreshToken(T) never issues a new token when T is in the revocation
\* set at the moment the new token is issued, also when logout(T) runs
\* between the validation of T and the issue of the new token.
C32_NoRefreshOfRevokedToken ==
    [][\A c \in CallIds :
          (calls'[c].pc = "refresh.generateToken" /\ calls[c].pc # calls'[c].pc) =>
              calls'[c].presented \notin revokedTokens]_vars

\* C33: logging out one session never invalidates another: the logout of the
\* token returned by one login or refreshToken call never makes the token
\* returned by a different call, which validated before, fail as revoked.
Returned(c) == calls[c].pc = "fulfilled"

C33_LogoutLeavesOtherSessions ==
    [][\A c, d \in CallIds :
          (/\ c # d
           /\ Returned(c)
           /\ Returned(d)
           /\ lastOp'.op = "logout"
           /\ lastOp'.token = calls[c].res.token
           /\ validateToken(calls[d].res.token, revokedTokens, now).ok)
              => validateToken(calls[d].res.token, revokedTokens', now).error
                     # RevokedErrorMessage]_vars

\* C34: a token issued to a user who is later deleted never authenticates as
\* any other user: ids come from a counter that only increases and are not
\* handed out again after delete, so the subject of the token resolves to no
\* user in every later state.
IdGenerated(id) == IdNumber(id) < nextId

IdsFromCounter ==
    /\ \A id \in DOMAIN users : IdGenerated(id) /\ users[id].id = id
    /\ lastOp.op \in {"authenticate", "authValidateToken"} =>
          \A r \in issued :
              (r.token = lastOp.token /\ r.userId \notin DOMAIN users) =>
                  /\ lastOp.res.user = NullUser
                  /\ lastOp.op = "authenticate" => lastOp.res.status = 401 /\ ~lastOp.res.next

IdsNotReused ==
    /\ nextId' >= nextId
    /\ \A id \in DOMAIN users' \ DOMAIN users : ~IdGenerated(id)
    /\ \A id \in UserIdStrings :
          (IdGenerated(id) /\ id \notin DOMAIN users) => id \notin DOMAIN users'

C34_DeletedSubjectNeverResolves == []IdsFromCounter /\ [][IdsNotReused]_vars

\* the token of a deleted user is presented to the middleware, unexpired and
\* not revoked, after another user was registered
C34_Witness ==
    /\ lastOp.op = "authenticate"
    /\ users # <<>>
    /\ \E r \in issued :
          /\ r.token = lastOp.token
          /\ r.userId \notin DOMAIN users
          /\ validateToken(r.token, revokedTokens, now).ok
    /\ lastOp.res = Responded(401, <<"Invalid authentication token">>)

\* C35: in the application as wired, every stored user has an empty roles
\* list in every reachable state: create sets roles to [], assignRole and
\* removeRole change nothing, although the admin endpoint answers 'Role
\* assigned successfully', and no other operation writes roles; so no
\* request passes requireAdmin, requireRole or requirePermission.
RolesAlwaysEmpty == \A id \in DOMAIN users : users[id].roles = <<>>

AssignRoleAnswersSuccess ==
    (lastOp.op = "AdminController.assignRole" /\ lastOp.id \in DOMAIN users) =>
        lastOp.res = Message(200, <<"Role assigned successfully">>)

NoRequestPasses ==
    /\ lastOp.op = "adminRoute" => ~lastOp.res.handler
    /\ lastOp.op \in {"roleRoute", "permissionRoute"} => ~lastOp.res.next

C35_RolesNeverAssigned ==
    /\ RolesAlwaysEmpty
    /\ AssignRoleAnswersSuccess
    /\ NoRequestPasses

\* C36: a successful password change revokes nothing: the revocation set is
\* unchanged by it, and every token issued to that user before the change
\* still authenticates after it, until its own expiry or an explicit logout.
PasswordChanged ==
    lastOp'.op = "updatePassword" /\ lastOp'.res.status = 200

PasswordChangeRevokesNothing ==
    PasswordChanged =>
        /\ revokedTokens' = revokedTokens
        /\ \A r \in issued :
              authenticate(BearerHeader(r.token), users', revokedTokens', now').next
                  = authenticate(BearerHeader(r.token), users, revokedTokens, now).next

\* in every state a token of an active stored user authenticates unless it
\* is expired or was logged out, whatever the password of the user is
IssuedTokenAuthenticates ==
    \A r \in issued :
        (/\ r.userId \in DOMAIN users
         /\ users[r.userId].isActive
         /\ r.token \notin revokedTokens
         /\ now <= r.issuedAt + ExpirationMs)
            => authenticate(BearerHeader(r.token), users, revokedTokens, now).next

C36_PasswordChangeKeepsSessions ==
    []IssuedTokenAuthenticates /\ [][PasswordChangeRevokesNothing]_vars

\* a token issued before the change is accepted after it
C36_Witness ==
    /\ lastOp.op = "authenticate"
    /\ lastOp.res.next
    /\ lastOp.token \in IssuedTokens
    /\ \E id \in DOMAIN users :
          /\ lastOp.res.user.id = id
          /\ verifyPassword(NewPassword, users[id].hashedPassword)
          /\ ~verifyPassword(StrongPassword, users[id].hashedPassword)

====
